---- MODULE Spec2Model ----
(***************************************************************************)
(* State-machine model of FMUploadMaster-bot.py: the persistence layer     *)
(* (class DatabaseManager), the two session maps of FileManagerBot, the    *)
(* handler routing that main() registers, the access evaluation of         *)
(* handle_category_access and the delivery loop of send_category_files.    *)
(*                                                                         *)
(* The Application is built with its defaults, so inbound updates are      *)
(* processed one after the other: a handler runs to completion before the  *)
(* next update is dispatched.  One action is therefore one whole handler   *)
(* run (or one whole DatabaseManager call).                                *)
(***************************************************************************)
EXTENDS Integers, Sequences, FiniteSets, Bags, TLC

(***************************************************************************)
(* Bounds and input universes                                              *)
(***************************************************************************)
MaxBatch == 3          \* longest file list of one upload session / one batch

max_retries == 3       \* _execute_with_retry: max_retries = 3

ADMIN_IDS == {1, 2}
Users == {1, 2, 3}

CategoryIds == {"A", "B"}
CategoryNames == {"n1", "n2"}
ChannelIds == {"c1", "c2"}
NoCategory == "none"

None == "None"

\* Inbound messages: the attachment the message carries (document, photo,
\* video, audio, voice, or something else such as a sticker) with the fields
\* Telegram gives for it.  Two messages carry the same file_id.
Messages ==
  { [kind |-> "document", file_id |-> "f1", file_name |-> None, file_size |-> 10,
     caption |-> None],
    [kind |-> "photo", file_id |-> "f1", file_name |-> None, file_size |-> 11,
     caption |-> "again"],
    [kind |-> "photo", file_id |-> "f2", file_name |-> None, file_size |-> 20,
     caption |-> "cap"],
    [kind |-> "video", file_id |-> "f3", file_name |-> None, file_size |-> 30,
     caption |-> None],
    [kind |-> "sticker", file_id |-> "s1", file_name |-> None, file_size |-> 1,
     caption |-> None] }

MediaKinds == {"document", "photo", "video", "audio", "voice"}

Or(value, default) == IF value = None THEN default ELSE value

\* extract_file_info(update): the file_info dictionary, or None.
extract_file_info(m) ==
  CASE m.kind = "document" ->
         [file_id |-> m.file_id, file_name |-> Or(m.file_name, "document"),
          file_size |-> m.file_size, file_type |-> "document", caption |-> Or(m.caption, "")]
    [] m.kind = "photo" ->
         [file_id |-> m.file_id, file_name |-> "photo.jpg",
          file_size |-> m.file_size, file_type |-> "photo", caption |-> Or(m.caption, "")]
    [] m.kind = "video" ->
         [file_id |-> m.file_id, file_name |-> Or(m.file_name, "video.mp4"),
          file_size |-> m.file_size, file_type |-> "video", caption |-> Or(m.caption, "")]
    [] m.kind = "audio" ->
         [file_id |-> m.file_id, file_name |-> Or(m.file_name, "audio"),
          file_size |-> m.file_size, file_type |-> "audio", caption |-> Or(m.caption, "")]
    [] m.kind = "voice" ->
         [file_id |-> m.file_id, file_name |-> "voice.ogg",
          file_size |-> m.file_size, file_type |-> "voice", caption |-> Or(m.caption, "")]
    [] OTHER -> None

\* The file_info dictionaries the messages give.
FileInfos == {extract_file_info(m) : m \in {x \in Messages : x.kind \in MediaKinds}}

\* The file_infos the persistence-layer specification draws its arguments from.
DbFileInfos == {fi \in FileInfos : fi.caption # "again"}

FileIdsOf(infos) == {infos[i].file_id : i \in DOMAIN infos}

SeqsUpTo(S, n) == UNION {[1..k -> S] : k \in 0..n}

Range(s) == {s[i] : i \in DOMAIN s}

SetMax(S) == IF S = {} THEN 0 ELSE CHOOSE x \in S : \A y \in S : y <= x

(***************************************************************************)
(* State                                                                   *)
(***************************************************************************)
VARIABLES
  categories,            \* table categories, rows in created_at order
  files,                 \* table files, rows in insertion (SERIAL id) order
  channels,              \* table channels, rows in created_at order
  pending_uploads,       \* FileManagerBot.pending_uploads : user -> session
  pending_channel_data,  \* FileManagerBot.pending_channel_data
  upload_conv,           \* state of upload_conv_handler per user
  channel_conv,          \* state of channel_conv_handler per user
  delete_keyboard,       \* per user: the keyboard of del_file_ buttons shown last
  awaiting,              \* the handler runs suspended at an await (a bag)
  acknowledged,          \* per user: files whose receipt reply was sent for the
                         \* session the user has now
  ev                     \* what the last handler run / database call did

vars == <<categories, files, channels, pending_uploads, pending_channel_data,
          upload_conv, channel_conv, delete_keyboard, awaiting, acknowledged, ev>>

dbvars == <<categories, files, channels>>
taskvars == <<awaiting, acknowledged>>
sessionvars == <<pending_uploads, pending_channel_data, upload_conv, channel_conv,
                 delete_keyboard, taskvars>>

(***************************************************************************)
(* Persistence layer: tables and their constraints (init_database)         *)
(***************************************************************************)
CategoryExists(cats, cid) == \E i \in DOMAIN cats : cats[i].id = cid

NameExists(cats, name) == \E i \in DOMAIN cats : cats[i].name = name

FileIdStored(rows, fid) == \E i \in DOMAIN rows : rows[i].file_id = fid

ChannelStored(chs, chid) == \E i \in DOMAIN chs : chs[i].channel_id = chid

\* upload_date DEFAULT CURRENT_TIMESTAMP: the start time of the inserting
\* transaction.  Only the order and equality of timestamps are observable
\* (ORDER BY upload_date), so a transaction's time is the least value later
\* than every stored one.
Now(rows) == 1 + SetMax({rows[i].upload_date : i \in DOMAIN rows})

\* After rows are deleted the remaining timestamps are renumbered 1, 2, ...
\* in the same order and with the same equalities.
Renumber(rows) ==
  [i \in DOMAIN rows |->
     [rows[i] EXCEPT !.upload_date =
        Cardinality({rows[j].upload_date : j \in DOMAIN rows} \cap (1..rows[i].upload_date))]]

FileRow(cid, info, ts) ==
  [category_id |-> cid, file_id |-> info.file_id, file_name |-> info.file_name,
   file_size |-> info.file_size, file_type |-> info.file_type,
   caption |-> info.caption, upload_date |-> ts]

\* _execute_with_retry(query): k is the number of consecutive executions of
\* the statement that raise OperationalError.  The loop runs attempt = 0, 1, 2;
\* a failure on the last attempt is raised to the caller.
RetryExecutions(k) == IF k < max_retries THEN k + 1 ELSE max_retries

RetryRaises(k) == k >= max_retries

RetryInputs == 0..max_retries

\* The two outcomes of _execute_with_retry: the statement ran (k < max_retries)
\* or the last OperationalError was raised (k = max_retries).
RetryOutcomes == {0, max_retries}

\* add_category: INSERT INTO categories; PRIMARY KEY(id), UNIQUE(name).
add_category_ok(cats, cid, name, k) ==
  ~RetryRaises(k) /\ ~CategoryExists(cats, cid) /\ ~NameExists(cats, name)

add_category_rows(cats, cid, name, by, k) ==
  IF add_category_ok(cats, cid, name, k)
  THEN Append(cats, [id |-> cid, name |-> name, created_by |-> by])
  ELSE cats

\* delete_category: DELETE FROM categories WHERE id; the files rows go with it
\* in the same statement (fk_category ... ON DELETE CASCADE).
delete_category_ok(k) == ~RetryRaises(k)

delete_category_cats(cats, cid, k) ==
  IF delete_category_ok(k)
  THEN SelectSeq(cats, LAMBDA c : c.id # cid)
  ELSE cats

\* Faulty variant: the cascade removes one row of the category only
delete_category_files_partial(rows, cid, k) ==
  IF delete_category_ok(k) /\ \E i \in DOMAIN rows : rows[i].category_id = cid
  THEN LET first == CHOOSE i \in DOMAIN rows :
                      /\ rows[i].category_id = cid
                      /\ \A j \in 1..(i - 1) : rows[j].category_id # cid
       IN  [j \in 1..(Len(rows) - 1) |-> IF j < first THEN rows[j] ELSE rows[j + 1]]
  ELSE rows

delete_category_files(rows, cid, k) ==
  IF delete_category_ok(k)
  THEN Renumber(SelectSeq(rows, LAMBDA r : r.category_id # cid))
  ELSE rows

\* add_file_to_category: one INSERT through _execute_with_retry; a UNIQUE
\* (file_id) or a foreign-key violation is an IntegrityError, caught: False.
\* Faulty variant: no UNIQUE constraint on file_id
add_file_ok_no_unique(cats, rows, cid, info, k) ==
  ~RetryRaises(k) /\ CategoryExists(cats, cid)

add_file_ok(cats, rows, cid, info, k) ==
  ~RetryRaises(k) /\ ~FileIdStored(rows, info.file_id) /\ CategoryExists(cats, cid)

add_file_rows(cats, rows, cid, info, k) ==
  IF add_file_ok(cats, rows, cid, info, k)
  THEN Append(rows, FileRow(cid, info, Now(rows)))
  ELSE rows

\* add_files_to_category: executemany of INSERT ... ON CONFLICT ON CONSTRAINT
\* files_file_id_unique DO NOTHING, one row after the other in one
\* transaction.  A row whose file_id is stored (or was inserted earlier in the
\* batch) is skipped before anything else is checked.
\* Faulty variant: ON CONFLICT DO UPDATE: a conflicting row replaces the stored one
RECURSIVE InsertEachUpsert(_, _, _, _)
InsertEachUpsert(rows, cid, infos, ts) ==
  IF infos = <<>> THEN rows
  ELSE InsertEachUpsert(
         Append(SelectSeq(rows, LAMBDA r : r.file_id # Head(infos).file_id),
                [category_id |-> cid, file_id |-> Head(infos).file_id,
                 file_name |-> Head(infos).file_name, file_size |-> Head(infos).file_size,
                 file_type |-> Head(infos).file_type, caption |-> Head(infos).caption,
                 upload_date |-> ts]),
         cid, Tail(infos), ts)

RECURSIVE InsertEach(_, _, _, _)
InsertEach(rows, cid, infos, ts) ==
  IF infos = <<>> THEN rows
  ELSE IF FileIdStored(rows, Head(infos).file_id)
       THEN InsertEach(rows, cid, Tail(infos), ts)
       ELSE InsertEach(Append(rows, FileRow(cid, Head(infos), ts)), cid, Tail(infos), ts)

\* A row that is really inserted into a category that does not exist violates
\* fk_category: the exception rolls the whole batch back.
BatchFkViolation(cats, rows, cid, infos) ==
  /\ ~CategoryExists(cats, cid)
  /\ \E i \in DOMAIN infos : ~FileIdStored(rows, infos[i].file_id)

\* dberr: the cursor or the commit raised (connection lost, ...): rollback.
add_files_ok(cats, rows, cid, infos, dberr) ==
  ~dberr /\ ~BatchFkViolation(cats, rows, cid, infos)

add_files_rows(cats, rows, cid, infos, dberr) ==
  IF add_files_ok(cats, rows, cid, infos, dberr)
  THEN InsertEach(rows, cid, infos, Now(rows))
  ELSE rows

\* What the call gives its caller.  The except branch calls
\* self.conn.rollback() before it returns False: when the exception was the
\* loss of the connection (lost), psycopg2 has marked the connection closed
\* and rollback() raises InterfaceError, which leaves the method.
add_files_outcome(cats, rows, cid, infos, dberr, lost) ==
  IF add_files_ok(cats, rows, cid, infos, dberr) THEN "True"
  ELSE IF dberr /\ lost THEN "InterfaceError"
  ELSE "False"

\* add_channel: INSERT INTO channels; channel_id UNIQUE.
\* Faulty variant: the insert goes through although the channel_id is stored
add_channel_ok_no_unique(chs, chid, k) == ~RetryRaises(k)

add_channel_ok(chs, chid, k) == ~RetryRaises(k) /\ ~ChannelStored(chs, chid)

add_channel_rows(chs, chid, name, link, k) ==
  IF add_channel_ok(chs, chid, k)
  THEN Append(chs, [channel_id |-> chid, channel_name |-> name, invite_link |-> link])
  ELSE chs

\* get_channels: SELECT ... ORDER BY created_at ASC; any exception: [].
get_channels(chs, k) == IF RetryRaises(k) THEN <<>> ELSE chs

\* delete_channel: DELETE FROM channels WHERE channel_id.
delete_channel_ok(k) == ~RetryRaises(k)

delete_channel_rows(chs, chid, k) ==
  IF delete_channel_ok(k)
  THEN SelectSeq(chs, LAMBDA c : c.channel_id # chid)
  ELSE chs

\* delete_file: SELECT id ... ORDER BY upload_date ASC LIMIT 1 OFFSET file_index,
\* then DELETE of that row.  Rows of one batch carry the same upload_date, and
\* the order of equal keys is not defined by ORDER BY: every row that a sort
\* by upload_date can place at the offset may be the one selected.
RowsOf(rows, cid) == {i \in DOMAIN rows : rows[i].category_id = cid}

\* Faulty variant: the offset counts from one
MayBeAtOffset_from_one(rows, cid, i, off) ==
  /\ i \in RowsOf(rows, cid)
  /\ Cardinality({j \in RowsOf(rows, cid) : rows[j].upload_date < rows[i].upload_date}) < off
  /\ off <= Cardinality({j \in RowsOf(rows, cid) : rows[j].upload_date <= rows[i].upload_date})

MayBeAtOffset(rows, cid, i, off) ==
  /\ i \in RowsOf(rows, cid)
  /\ Cardinality({j \in RowsOf(rows, cid) : rows[j].upload_date < rows[i].upload_date}) <= off
  /\ off < Cardinality({j \in RowsOf(rows, cid) : rows[j].upload_date <= rows[i].upload_date})

RemoveAt(s, i) == [j \in 1..(Len(s) - 1) |-> IF j < i THEN s[j] ELSE s[j + 1]]

(***************************************************************************)
(* Record of the last step                                                 *)
(***************************************************************************)
NoSnapshot == [c \in ChannelIds |-> "none"]

\* ev describes the step that has just run; it is no state of the program.
\* It is cleared (Return) before the next update or call is taken up, so that
\* every step starts from ev = NoEvent.
NoEvent ==
  [op |-> "idle", user |-> 0, cat |-> NoCategory, result |-> "none",
   batch |-> <<>>, executions |-> 0, dberr |-> FALSE,
   categories0 |-> <<>>, files0 |-> <<>>,
   update |-> "none",      \* class of the object the handler got as update
   snap |-> NoSnapshot,    \* what get_chat_member answers during the event
   fetched |-> <<>>,       \* what get_channels returned
   queries |-> <<>>,       \* channel ids passed to get_chat_member, in order
   gate |-> <<>>,          \* channels listed in the membership-gate message
   delivery |-> NoCategory,\* category send_category_files was called for
   sends |-> <<>>,         \* outbound media sends, in order
   db_calls |-> <<>>,      \* add_files_to_category calls of the event
   session0 |-> <<>>,      \* the user's pending_uploads entry before the event
   received |-> <<>>,      \* the message a media handler got
   text |-> "none",        \* the command or kind of the inbound update
   chsession0 |-> <<>>,    \* the user's pending_channel_data entry before the event
   channel_calls |-> <<>>, \* add_channel calls of the event
   channels0 |-> <<>>,     \* table channels before the event
   file_index |-> -1,      \* the file_index argument of delete_file
   name |-> "none",        \* the name argument of add_category
   listing |-> <<>>,       \* what get_categories / get_channels returned
   channel_id |-> "none",  \* the channel_id argument of a channel method
   outcomes |-> <<>>,      \* what each attempt of _execute_with_retry met
   reconnects |-> <<>>,    \* the reconnect attempts made, TRUE = connected
   fetch |-> "none",       \* the fetch argument of _execute_with_retry
   value |-> "none",       \* what _execute_with_retry returned
   reported |-> -1,        \* the number of files the success reply of finish_upload states
   acknowledged0 |-> <<>>, \* the user's acknowledged files before the event
   appended0 |-> <<>>]     \* files appended for the user whose receipt reply is awaited (a bag)

Idle == ev = NoEvent

Return ==
  /\ ev # NoEvent
  /\ ev' = NoEvent
  /\ UNCHANGED <<dbvars, sessionvars>>

\* A DatabaseManager call: its arguments, what it returned, how often the
\* statement was executed, whether the backend raised, and the tables before it.
DbEvent(op, cid, batch, ok, n, raised) ==
  [NoEvent EXCEPT !.op = op, !.cat = cid, !.batch = batch,
                  !.result = IF ok THEN "True" ELSE "False", !.executions = n,
                  !.dberr = raised,
                  !.categories0 = categories, !.files0 = files]

(***************************************************************************)
(* DatabaseManager methods as steps (any caller, any arguments)            *)
(***************************************************************************)
DbAddCategory(cid, name, by, k) ==
  /\ Idle
  /\ categories' = add_category_rows(categories, cid, name, by, k)
  /\ ev' = [DbEvent("add_category", cid, <<>>, add_category_ok(categories, cid, name, k),
                    RetryExecutions(k), RetryRaises(k))
              EXCEPT !.name = name]
  /\ UNCHANGED <<files, channels, sessionvars>>

\* is_admin: user_id in ADMIN_IDS.
\* Faulty variant: nobody is recognised as an administrator
is_admin_nobody(user_id) == FALSE

\* Faulty variant: every user is recognised as an administrator
is_admin_everybody(user_id) == TRUE

is_admin(user_id) == user_id \in ADMIN_IDS

\* get_categories: SELECT ... FROM categories ORDER BY created_at DESC, then
\* one SELECT of the files of these categories ORDER BY upload_date ASC, which
\* is grouped by category_id in the order the rows come.  order is the order
\* in which the second SELECT gives the rows: any order by upload_date.
FileOrders(rows) ==
  LET n == Len(rows) IN
  { q \in [1..n -> 1..n] :
      /\ \A i, j \in 1..n : q[i] = q[j] => i = j
      /\ \A i, j \in 1..n : i < j => rows[q[i]].upload_date <= rows[q[j]].upload_date }

Reverse(s) == [i \in 1..Len(s) |-> s[Len(s) + 1 - i]]

FileDict(r) ==
  [file_id |-> r.file_id, file_name |-> r.file_name, file_size |-> r.file_size,
   file_type |-> r.file_type, caption |-> Or(r.caption, "")]

files_by_category(files_data, cat_id) ==
  LET mine == SelectSeq(files_data, LAMBDA r : r.category_id = cat_id)
  IN  [i \in 1..Len(mine) |-> FileDict(mine[i])]

\* Faulty variant: the categories come oldest first
get_categories_oldest_first(cats, rows, order, k1, k2) ==
  IF RetryRaises(k1) \/ cats = <<>> \/ RetryRaises(k2) THEN <<>>
  ELSE LET files_data == [i \in 1..Len(rows) |-> rows[order[i]]]
       IN  [i \in 1..Len(cats) |->
              [id |-> cats[i].id, name |-> cats[i].name,
               created_by |-> cats[i].created_by,
               files |-> files_by_category(files_data, cats[i].id)]]

\* The dictionary returned, as the sequence of its items (a dict keeps the
\* order of insertion); {} when a statement raised.
get_categories(cats, rows, order, k1, k2) ==
  IF RetryRaises(k1) THEN <<>>
  ELSE LET categories_data == Reverse(cats) IN
       IF categories_data = <<>> THEN <<>>
       ELSE IF RetryRaises(k2) THEN <<>>
       ELSE LET category_ids == {categories_data[i].id : i \in DOMAIN categories_data}
                files_data ==
                  SelectSeq([i \in 1..Len(rows) |-> rows[order[i]]],
                            LAMBDA r : r.category_id \in category_ids)
            IN  [i \in 1..Len(categories_data) |->
                   [id |-> categories_data[i].id, name |-> categories_data[i].name,
                    created_by |-> categories_data[i].created_by,
                    files |-> files_by_category(files_data, categories_data[i].id)]]

DbGetCategories(order, k1, k2) ==
  /\ Idle
  /\ ev' = [NoEvent EXCEPT
              !.op = "get_categories",
              !.listing = get_categories(categories, files, order, k1, k2),
              !.executions = IF RetryRaises(k1) \/ categories = <<>>
                             THEN RetryExecutions(k1)
                             ELSE RetryExecutions(k1) + RetryExecutions(k2),
              !.dberr = RetryRaises(k1) \/ (categories # <<>> /\ RetryRaises(k2)),
              !.categories0 = categories, !.files0 = files]
  /\ UNCHANGED <<dbvars, sessionvars>>

\* ' '.join(context.args)
RECURSIVE JoinArgs(_)
JoinArgs(args) ==
  IF Len(args) = 1 THEN args[1] ELSE args[1] \o " " \o JoinArgs(Tail(args))

\* Faulty variant: the insert goes through although the name is stored
new_category_no_unique_name(cats, user_id, args, uuid, k) ==
  IF ~is_admin(user_id) THEN [categories |-> cats, result |-> "not_allowed"]
  ELSE IF args = <<>> THEN [categories |-> cats, result |-> "usage"]
  ELSE IF ~RetryRaises(k) /\ ~CategoryExists(cats, uuid)
       THEN [categories |->
               Append(cats, [id |-> uuid, name |-> JoinArgs(args), created_by |-> user_id]),
             result |-> "created"]
       ELSE [categories |-> cats, result |-> "error"]

\* new_category: the table categories after the command and the reply given.
\* uuid is the category_id drawn by str(uuid.uuid4())[:8].
new_category(cats, user_id, args, uuid, k) ==
  IF ~is_admin(user_id) THEN [categories |-> cats, result |-> "not_allowed"]
  ELSE IF args = <<>> THEN [categories |-> cats, result |-> "usage"]
  ELSE LET category_name == JoinArgs(args) IN
       IF add_category_ok(cats, uuid, category_name, k)
       THEN [categories |-> add_category_rows(cats, uuid, category_name, user_id, k),
             result |-> "created"]
       ELSE [categories |-> cats, result |-> "error"]

\* /new_category <words>: a command handler outside the conversations.
NewCategoryCommand(user_id, args, uuid, k) ==
  LET r == new_category(categories, user_id, args, uuid, k)
      called == is_admin(user_id) /\ args # <<>>
  IN  /\ Idle
      /\ categories' = r.categories
      /\ ev' = [NoEvent EXCEPT
                  !.op = "new_category", !.user = user_id, !.update = "Update",
                  !.text = "/new_category", !.result = r.result,
                  !.cat = IF called THEN uuid ELSE NoCategory,
                  !.name = IF called THEN JoinArgs(args) ELSE "none",
                  !.executions = IF called THEN RetryExecutions(k) ELSE 0,
                  !.dberr = called /\ RetryRaises(k),
                  !.categories0 = categories, !.files0 = files]
      /\ UNCHANGED <<files, channels, sessionvars>>

\* One administrator and one user who is none send the command, with no
\* word, one word or two.
NewCategoryUsers == {1, 3}
NewCategoryArgs == {<<>>, <<"n1">>, <<"n1", "n2">>}

DbDeleteCategory(cid, k) ==
  /\ Idle
  /\ categories' = delete_category_cats(categories, cid, k)
  /\ files' = delete_category_files(files, cid, k)
  /\ ev' = DbEvent("delete_category", cid, <<>>, delete_category_ok(k), RetryExecutions(k),
                   RetryRaises(k))
  /\ UNCHANGED <<channels, sessionvars>>

DbAddFile(cid, info, k) ==
  /\ Idle
  /\ files' = add_file_rows(categories, files, cid, info, k)
  /\ ev' = DbEvent("add_file_to_category", cid, <<info>>,
                   add_file_ok(categories, files, cid, info, k), RetryExecutions(k),
                   RetryRaises(k))
  /\ UNCHANGED <<categories, channels, sessionvars>>

DbAddFiles(cid, infos, dberr, lost) ==
  /\ Idle
  /\ files' = add_files_rows(categories, files, cid, infos, dberr)
  /\ ev' = [DbEvent("add_files_to_category", cid, infos,
                    add_files_ok(categories, files, cid, infos, dberr), 1, dberr)
              EXCEPT !.result =
                       add_files_outcome(categories, files, cid, infos, dberr, lost)]
  /\ UNCHANGED <<categories, channels, sessionvars>>

DbDeleteFile(cid, off, dberr) ==
  /\ Idle
  /\ IF ~dberr /\ \E i \in DOMAIN files : MayBeAtOffset(files, cid, i, off)
     THEN /\ \E i \in DOMAIN files :
               /\ MayBeAtOffset(files, cid, i, off)
               /\ files' = Renumber(RemoveAt(files, i))
          /\ ev' = [DbEvent("delete_file", cid, <<>>, TRUE, 1, FALSE)
                      EXCEPT !.file_index = off]
     ELSE /\ files' = files
          /\ ev' = [DbEvent("delete_file", cid, <<>>, FALSE, 1, dberr)
                      EXCEPT !.file_index = off]
  /\ UNCHANGED <<categories, channels, sessionvars>>

(***************************************************************************)
(* Specifications                                                          *)
(***************************************************************************)
Init ==
  /\ categories = <<>>
  /\ files = <<>>
  /\ channels = <<>>
  /\ pending_uploads = [u \in {} |-> 0]
  /\ pending_channel_data = [u \in {} |-> 0]
  /\ upload_conv = [u \in Users |-> "END"]
  /\ channel_conv = [u \in Users |-> "END"]
  /\ delete_keyboard = [u \in Users |-> <<>>]
  /\ awaiting = EmptyBag
  /\ acknowledged = [u \in Users |-> <<>>]
  /\ ev = NoEvent

\* The names add_category is called with: those /new_category can give.
DbCategoryNames == {JoinArgs(args) : args \in NewCategoryArgs \ {<<>>}}

\* The persistence layer on its own: every method, every argument; and the
\* command that creates categories.
NextDb ==
  \/ Idle /\ \E order \in FileOrders(files), k1 \in RetryOutcomes, k2 \in RetryOutcomes :
               DbGetCategories(order, k1, k2)
  \/ Idle /\ \E user_id \in NewCategoryUsers, args \in NewCategoryArgs, uuid \in CategoryIds,
                  k \in RetryOutcomes :
               NewCategoryCommand(user_id, args, uuid, k)
  \/ Idle /\ \E cid \in CategoryIds, name \in DbCategoryNames, k \in RetryOutcomes :
               DbAddCategory(cid, name, 1, k)
  \/ Idle /\ \E cid \in CategoryIds, k \in RetryOutcomes : DbDeleteCategory(cid, k)
  \/ Idle /\ \E cid \in CategoryIds, info \in FileInfos, k \in RetryOutcomes :
               DbAddFile(cid, info, k)
  \/ Idle /\ \E cid \in CategoryIds, infos \in SeqsUpTo(DbFileInfos, MaxBatch),
                  dberr \in BOOLEAN :
               \E lost \in (IF dberr THEN BOOLEAN ELSE {FALSE}) :
                 DbAddFiles(cid, infos, dberr, lost)
  \/ Idle /\ \E cid \in CategoryIds, off \in 0..MaxBatch, dberr \in BOOLEAN :
               DbDeleteFile(cid, off, dberr)
  \/ Return

SpecDb == Init /\ [][NextDb]_vars

(***************************************************************************)
(* Claims about the persistence layer (checked under SpecDb)               *)
(***************************************************************************)
WithoutDate(r) == [r EXCEPT !.upload_date = 0]

\* The same rows in the same sequence, with upload dates in the same order.
SameFiles(a, b) ==
  /\ Len(a) = Len(b)
  /\ \A i \in DOMAIN a : WithoutDate(a[i]) = WithoutDate(b[i])
  /\ \A i, j \in DOMAIN a :
       (a[i].upload_date <= a[j].upload_date) <=> (b[i].upload_date <= b[j].upload_date)

FilesOfCategory(rows, cid) == SelectSeq(rows, LAMBDA r : r.category_id = cid)

FilesOfOthers(rows, cid) == SelectSeq(rows, LAMBDA r : r.category_id # cid)

\* C7: in every state each stored file belongs to a stored category; after a
\* delete_category(C) that returned True, C is no category, no file of C is
\* stored and the files of every other category are the ones stored before, in
\* the same order; a delete_category that returned False changed nothing.
C7_CascadeDelete ==
  /\ \A i \in DOMAIN files : CategoryExists(categories, files[i].category_id)
  /\ ev.op = "delete_category" =>
       IF ev.result = "True"
       THEN /\ ~CategoryExists(categories, ev.cat)
            /\ FilesOfCategory(files, ev.cat) = <<>>
            /\ \A c \in CategoryIds \ {ev.cat} :
                 SameFiles(FilesOfCategory(files, c), FilesOfCategory(ev.files0, c))
            /\ SameFiles(files, FilesOfOthers(ev.files0, ev.cat))
       ELSE files = ev.files0 /\ categories = ev.categories0

\* A category with two files is deleted while another category has a file.
C7_Witness ==
  /\ ev.op = "delete_category" /\ ev.result = "True"
  /\ Len(FilesOfCategory(ev.files0, ev.cat)) = 2
  /\ Len(FilesOfOthers(ev.files0, ev.cat)) = 1
  /\ Len(files) = 1

\* C8: in every state no two stored files have the same file_id, whatever the
\* categories; add_file_to_category with a file_id that is stored returns False
\* and leaves the tables as they were.
C8_FileIdUnique ==
  /\ \A i, j \in DOMAIN files : files[i].file_id = files[j].file_id => i = j
  /\ (ev.op = "add_file_to_category" /\ FileIdStored(ev.files0, ev.batch[1].file_id)) =>
       /\ ev.result = "False"
       /\ files = ev.files0
       /\ categories = ev.categories0

\* add_file_to_category of a stored file_id, with other fields and for another
\* (existing) category than the one that owns it, on a working connection.
C8_Witness ==
  /\ ev.op = "add_file_to_category" /\ ~ev.dberr
  /\ CategoryExists(ev.categories0, ev.cat)
  /\ \E i \in DOMAIN ev.files0 :
       /\ ev.files0[i].file_id = ev.batch[1].file_id
       /\ ev.files0[i].category_id # ev.cat
       /\ ev.files0[i].caption # ev.batch[1].caption

\* The positions of the batch that add_files_to_category inserts: the first
\* occurrence of each file_id that was not stored before the call.
FirstNew(rows, infos) ==
  {i \in DOMAIN infos :
     /\ ~FileIdStored(rows, infos[i].file_id)
     /\ \A j \in 1..(i - 1) : infos[j].file_id # infos[i].file_id}

\* C9: when add_files_to_category runs on a stored category and the backend
\* raises nothing, it returns True; the rows stored before are all still there,
\* unchanged and in front; the rows after them are exactly the first
\* occurrences of the file_ids of the batch that were not stored, in batch
\* order, all in the category of the call.  (The raising backend is C25.)
C9_BatchSkipsDuplicates ==
  (ev.op = "add_files_to_category" /\ CategoryExists(ev.categories0, ev.cat) /\ ~ev.dberr) =>
    LET n0 == Len(ev.files0)
        new == FirstNew(ev.files0, ev.batch)
    IN  /\ ev.result = "True"
        /\ categories = ev.categories0
        /\ Len(files) = n0 + Cardinality(new)
        /\ SubSeq(files, 1, n0) = ev.files0
        /\ \A p \in 1..Cardinality(new) :
             \E i \in new :
               /\ Cardinality({j \in new : j <= i}) = p
               /\ WithoutDate(files[n0 + p]) =
                    WithoutDate(FileRow(ev.cat, ev.batch[i], 0))
               /\ \A q \in 1..n0 : files[q].upload_date < files[n0 + p].upload_date

\* The batch [f1, f2, f1] with f1 stored: one row more after the call.
C9_Witness ==
  /\ ev.op = "add_files_to_category" /\ ev.result = "True" /\ ~ev.dberr
  /\ Len(ev.batch) = 3
  /\ ev.batch[1].file_id = ev.batch[3].file_id
  /\ ev.batch[2].file_id # ev.batch[1].file_id
  /\ FileIdStored(ev.files0, ev.batch[1].file_id)
  /\ ~FileIdStored(ev.files0, ev.batch[2].file_id)
  /\ Len(FilesOfCategory(files, ev.cat)) = Len(FilesOfCategory(ev.files0, ev.cat)) + 1

(***************************************************************************)
(* Access evaluation and delivery                                          *)
(***************************************************************************)
\* ChatMember.status as Telegram reports it; "error" is get_chat_member raising.
MemberStatuses == {"creator", "administrator", "member", "restricted", "left", "kicked"}

QueryAnswers == MemberStatuses \cup {"error"}

\* What get_chat_member(channel, user) answers while one update is handled.
Snapshots == [ChannelIds -> QueryAnswers]

\* A channel Telegram does not know makes get_chat_member raise.
Answer(snap, chid) == IF chid \in DOMAIN snap THEN snap[chid] ELSE "error"

\* Faulty variant: the owner of a channel is not counted as a member
IsJoined_without_creator(answer) == answer \in {"member", "administrator"}

\* member.status not in ['member', 'administrator', 'creator']
IsJoined(answer) == answer \in {"member", "administrator", "creator"}

\* for channel in channels: try get_chat_member ... except: append.
\* acc = [queries, non_joined]; an exception is caught inside the loop body.
RECURSIVE MembershipLoop(_, _, _)
MembershipLoop(chs, snap, acc) ==
  IF chs = <<>> THEN acc
  ELSE MembershipLoop(Tail(chs), snap,
         [queries |-> Append(acc.queries, Head(chs).channel_id),
          non_joined |->
            IF Answer(snap, Head(chs).channel_id) = "error"
               \/ ~IsJoined(Answer(snap, Head(chs).channel_id))
            THEN Append(acc.non_joined, Head(chs))
            ELSE acc.non_joined])

\* handle_category_access after its first two lines: which branch is taken,
\* with the channel list fetched, the queries made and the channels missing.
\* kch: failing executions of the SELECT of get_channels.
CanAccess(user_id, chs, kch, snap) ==
  IF is_admin(user_id)
  THEN [path |-> "admin", fetched |-> <<>>, queries |-> <<>>, non_joined |-> <<>>]
  ELSE LET fetched == get_channels(chs, kch)
           loop == MembershipLoop(fetched, snap, [queries |-> <<>>, non_joined |-> <<>>])
       IN  IF fetched = <<>>
           THEN [path |-> "deliver", fetched |-> fetched, queries |-> <<>>,
                 non_joined |-> <<>>]
           ELSE [path |-> IF loop.non_joined = <<>> THEN "deliver" ELSE "gate",
                 fetched |-> fetched, queries |-> loop.queries,
                 non_joined |-> loop.non_joined]

\* get_category: None when the category row is not found or a statement raised.
get_category_found(cats, cid, k) == ~RetryRaises(k) /\ CategoryExists(cats, cid)

\* get_category(...)['files']: the rows of the category ORDER BY upload_date
\* ASC.  Rows with equal upload_date (one batch) come in an order the query
\* does not define: every sorted arrangement is a possible result.
FileLists(rows, cid) ==
  LET idx == RowsOf(rows, cid)
      n == Cardinality(idx)
  IN  { [i \in 1..n |-> rows[p[i]]] :
          p \in { q \in [1..n -> idx] :
                    /\ \A i, j \in 1..n : q[i] = q[j] => i = j
                    /\ \A i, j \in 1..n :
                         i < j => rows[q[i]].upload_date <= rows[q[j]].upload_date } }

\* The if/elif chain of send_category_files.
SendMethod(file_type) ==
  CASE file_type = "document" -> "send_document"
    [] file_type = "photo" -> "send_photo"
    [] file_type = "video" -> "send_video"
    [] file_type = "audio" -> "send_audio"
    [] file_type = "voice" -> "send_voice"
    [] OTHER -> "none"

\* Faulty variant: the first send that raises ends the loop
DeliveryLoop_stop_at_failure(fl, failed) ==
  SelectSeq([i \in DOMAIN fl |->
               [method |-> IF \E j \in failed : j < i THEN "none"
                           ELSE SendMethod(fl[i].file_type),
                file_id |-> fl[i].file_id,
                caption |-> fl[i].caption, ok |-> i \notin failed]],
            LAMBDA a : a.method # "none")

\* The loop of send_category_files over the list fl; the send of the files at
\* the positions in failed raises, which is logged and the loop goes on.
DeliveryLoop(fl, failed) ==
  SelectSeq([i \in DOMAIN fl |->
               [method |-> SendMethod(fl[i].file_type), file_id |-> fl[i].file_id,
                caption |-> fl[i].caption, ok |-> i \notin failed]],
            LAMBDA a : a.method # "none")

\* send_category_files(update, context, category_id) as the tail of an event e.
send_category_files(e, cid, kcat, fl, failed) ==
  IF ~get_category_found(categories, cid, kcat)
  THEN [e EXCEPT !.delivery = cid, !.result = "not_found"]
  ELSE IF fl = <<>>
       THEN [e EXCEPT !.delivery = cid, !.result = "no_files"]
       ELSE [e EXCEPT !.delivery = cid, !.result = "sent",
                      !.sends = DeliveryLoop(fl, failed)]

\* handle_admin_category_access: the administration keyboard of the category.
handle_admin_category_access(e, cid, kcat) ==
  IF ~get_category_found(categories, cid, kcat)
  THEN [e EXCEPT !.result = "not_found"]
  ELSE [e EXCEPT !.result = "admin_menu"]

\* Update carries effective_user, effective_chat and message.  A CallbackQuery
\* carries from_user, message and data, and no effective_user: reading the
\* attribute raises AttributeError.
HasEffectiveUser(update) == update = "Update"

\* handle_category_access(update, context, category_id): the event it makes.
handle_category_access(update, user_id, cid, kch, snap, kcat, fl, failed) ==
  LET e == [NoEvent EXCEPT !.op = "handle_category_access", !.update = update,
                           !.user = user_id, !.cat = cid, !.snap = snap]
      acc == CanAccess(user_id, channels, kch, snap)
      checked == [e EXCEPT !.fetched = acc.fetched, !.queries = acc.queries]
  IN  IF ~HasEffectiveUser(update)
      THEN [e EXCEPT !.result = "AttributeError"]
      ELSE IF acc.path = "admin"
           THEN handle_admin_category_access(checked, cid, kcat)
           ELSE IF acc.path = "deliver"
                THEN send_category_files(checked, cid, kcat, fl, failed)
                ELSE [checked EXCEPT !.result = "gate", !.gate = acc.non_joined]

\* The if/elif chain of view_category_files: documents and photos.
ViewSendMethod(file_type) ==
  CASE file_type = "document" -> "send_document"
    [] file_type = "photo" -> "send_photo"
    [] OTHER -> "none"

\* The loop of view_category_files over the list fl.
ViewLoop(fl, failed) ==
  SelectSeq([i \in DOMAIN fl |->
               [method |-> ViewSendMethod(fl[i].file_type), file_id |-> fl[i].file_id,
                caption |-> fl[i].caption, ok |-> i \notin failed]],
            LAMBDA a : a.method # "none")

\* view_category_files(query, context, category_id) as the tail of an event e.
view_category_files(e, cid, kcat, fl, failed) ==
  IF ~get_category_found(categories, cid, kcat)
  THEN [e EXCEPT !.delivery = cid, !.result = "not_found"]
  ELSE IF fl = <<>>
       THEN [e EXCEPT !.delivery = cid, !.result = "no_files"]
       ELSE [e EXCEPT !.delivery = cid, !.result = "sent",
                      !.sends = ViewLoop(fl, failed)]

\* Callback view_<category_id>: button_handler -> view_category_files, for
\* administrators.
ButtonView(user_id, cid, kcat, fl, failed) ==
  /\ Idle
  /\ LET e == [NoEvent EXCEPT !.op = "view_category_files", !.update = "CallbackQuery",
                              !.user = user_id, !.cat = cid]
     IN  ev' = IF is_admin(user_id)
               THEN view_category_files(e, cid, kcat, fl, failed)
               ELSE [e EXCEPT !.op = "button_handler", !.result = "not_allowed"]
  /\ UNCHANGED <<dbvars, sessionvars>>

\* /start cat_<category_id>: start -> handle_category_access(update, ...).
StartCategory(user_id, cid, kch, snap, kcat, fl, failed) ==
  /\ Idle
  /\ ev' = handle_category_access("Update", user_id, cid, kch, snap, kcat, fl, failed)
  /\ UNCHANGED <<dbvars, sessionvars>>

\* Callback check_membership_<category_id>: button_handler hands its
\* CallbackQuery to handle_category_access as the update.
ButtonCheckMembership(user_id, cid, kch, snap, kcat, fl, failed) ==
  /\ Idle
  /\ ev' = handle_category_access("CallbackQuery", user_id, cid, kch, snap, kcat, fl, failed)
  /\ UNCHANGED <<dbvars, sessionvars>>

\* /remove_channel <channel_id>
remove_channel(user_id, chid, k) ==
  /\ Idle
  /\ IF is_admin(user_id)
     THEN /\ channels' = delete_channel_rows(channels, chid, k)
          /\ ev' = [NoEvent EXCEPT !.op = "remove_channel", !.user = user_id,
                      !.result = IF delete_channel_ok(k) THEN "removed" ELSE "error"]
     ELSE /\ channels' = channels
          /\ ev' = [NoEvent EXCEPT !.op = "remove_channel", !.user = user_id,
                      !.result = "not_allowed"]
  /\ UNCHANGED <<categories, files, sessionvars>>

\* The database outlives the process: the bot starts on the tables an earlier
\* run left.  The access specification starts on one category "A", empty or
\* holding a single file and a later batch of two, and on any channel table.
ChannelRow(chid) ==
  [channel_id |-> chid, channel_name |-> "channel", invite_link |-> "https://t.me/+x"]

ChannelTables ==
  {t \in SeqsUpTo({ChannelRow(c) : c \in ChannelIds}, Cardinality(ChannelIds)) :
     \A i, j \in DOMAIN t : t[i] = t[j] => i = j}

InfoOf(fid) == CHOOSE fi \in DbFileInfos : fi.file_id = fid

StoredCategories == add_category_rows(<<>>, "A", "n1", 1, 0)

StoredFiles ==
  add_files_rows(StoredCategories,
                 add_file_rows(StoredCategories, <<>>, "A", InfoOf("f3"), 0),
                 "A", <<InfoOf("f1"), InfoOf("f2")>>, FALSE)

InitAccess ==
  /\ categories = StoredCategories
  /\ files \in {<<>>, StoredFiles}
  /\ channels \in ChannelTables
  /\ pending_uploads = [u \in {} |-> 0]
  /\ pending_channel_data = [u \in {} |-> 0]
  /\ upload_conv = [u \in Users |-> "END"]
  /\ channel_conv = [u \in Users |-> "END"]
  /\ delete_keyboard = [u \in Users |-> <<>>]
  /\ awaiting = EmptyBag
  /\ acknowledged = [u \in Users |-> <<>>]
  /\ ev = NoEvent

NextAccess ==
  \/ Idle /\ \E u \in Users, cid \in CategoryIds :
               \E fl \in FileLists(files, cid) :
                 \E failed \in SUBSET (DOMAIN fl), kch \in RetryOutcomes,
                    kcat \in RetryOutcomes, snap \in Snapshots :
                   StartCategory(u, cid, kch, snap, kcat, fl, failed)
  \/ Idle /\ \E u \in Users, cid \in CategoryIds :
               \E fl \in FileLists(files, cid) :
                 \E failed \in SUBSET (DOMAIN fl), kch \in RetryOutcomes,
                    kcat \in RetryOutcomes, snap \in Snapshots :
                   ButtonCheckMembership(u, cid, kch, snap, kcat, fl, failed)
  \/ Idle /\ \E u \in Users, chid \in ChannelIds, k \in RetryOutcomes :
               remove_channel(u, chid, k)
  \/ Idle /\ \E u \in Users, cid \in CategoryIds :
               \E fl \in FileLists(files, cid) :
                 \E failed \in SUBSET (DOMAIN fl), kcat \in RetryOutcomes :
                   ButtonView(u, cid, kcat, fl, failed)
  \/ Return

SpecAccess == InitAccess /\ [][NextAccess]_vars

(***************************************************************************)
(* Claims about access evaluation (checked under SpecAccess)               *)
(***************************************************************************)
\* Membership as the specification defines it.
Member(answer) == answer \in {"member", "administrator", "creator"}

ChannelIdsOf(chs) == [i \in DOMAIN chs |-> chs[i].channel_id]

AccessEvent == ev.op = "handle_category_access"

\* C1: whenever handle_category_access runs for an administrator, no
\* membership query is made, no membership-gate message is shown and nothing
\* is refused for missing channels, whatever channels are registered and
\* whatever the administrator's status in them; a category request by deep
\* link ends in the administration menu of the category (or "not found").
C1_AdminBypassesGate ==
  (AccessEvent /\ ev.user \in ADMIN_IDS) =>
    /\ ev.queries = <<>>
    /\ ev.gate = <<>>
    /\ ev.result # "gate"
    /\ ev.delivery = NoCategory
    /\ (ev.update = "Update") => (ev.result \in {"admin_menu", "not_found"})

\* An administrator who is in none of two registered channels opens a category.
C1_Witness ==
  /\ AccessEvent /\ ev.user \in ADMIN_IDS /\ ev.update = "Update"
  /\ Len(channels) = 2
  /\ \A c \in ChannelIds : ev.snap[c] = "left"
  /\ ev.result = "admin_menu"

\* C2 (as claimed): send_category_files is called for a non-administrator
\* only in an event whose evaluation was Granted: no channel is registered, or
\* the user's status is member, administrator or creator in every registered
\* channel.
C2_DeliveryOnlyAfterGranted ==
  (AccessEvent /\ ev.user \notin ADMIN_IDS /\ ev.delivery # NoCategory) =>
    \/ channels = <<>>
    \/ \A i \in DOMAIN channels : Member(ev.snap[channels[i].channel_id])

\* C3 (as claimed): for a non-administrator's category request and a
\* non-empty channel table, every registered channel is queried, in
\* registration order, and the gate lists exactly the channels whose answer is
\* no membership status or an error, in registration order.
C3_EveryChannelQueried ==
  (AccessEvent /\ ev.update = "Update" /\ ev.user \notin ADMIN_IDS /\ channels # <<>>) =>
    /\ ev.queries = ChannelIdsOf(channels)
    /\ ev.gate = SelectSeq(channels, LAMBDA ch : ~Member(ev.snap[ch.channel_id]))
    /\ (ev.result = "gate") <=> (ev.gate # <<>>)

\* C4: a non-administrator's category request while no channel is registered
\* calls send_category_files for that category in the same event, with no
\* membership query and no gate message.
C4_NoChannelsImmediateDelivery ==
  (AccessEvent /\ ev.update = "Update" /\ ev.user \notin ADMIN_IDS /\ channels = <<>>) =>
    /\ ev.delivery = ev.cat
    /\ ev.queries = <<>>
    /\ ev.gate = <<>>
    /\ ev.result \in {"sent", "no_files", "not_found"}
    /\ (ev.result = "sent") => (Len(ev.sends) = Len(FilesOfCategory(files, ev.cat)))

\* A non-administrator gets the three files of "A" while no channel is registered.
C4_Witness ==
  /\ AccessEvent /\ ev.update = "Update" /\ ev.user \notin ADMIN_IDS
  /\ channels = <<>>
  /\ ev.result = "sent" /\ Len(ev.sends) = 3

\* C5 (as claimed): a re-check (callback check_membership_<category>) by a
\* non-administrator who is by then a member of every registered channel
\* delivers the category; otherwise it shows the gate again.
C5_RecheckReevaluates ==
  (AccessEvent /\ ev.update = "CallbackQuery" /\ ev.user \notin ADMIN_IDS) =>
    IF \A i \in DOMAIN channels : Member(ev.snap[channels[i].channel_id])
    THEN ev.delivery = ev.cat
    ELSE ev.result = "gate"

\* What the evaluation does keep: when get_channels returned the channel table
\* (its SELECT did not fail), a deep-link request by a non-administrator
\* queries every channel in order, lists exactly the channels without
\* membership, and delivers only to a member of all of them.
EvaluationWhenFetched ==
  (AccessEvent /\ ev.update = "Update" /\ ev.user \notin ADMIN_IDS
     /\ ev.fetched = channels /\ channels # <<>>) =>
    /\ ev.queries = ChannelIdsOf(channels)
    /\ ev.gate = SelectSeq(channels, LAMBDA ch : ~Member(ev.snap[ch.channel_id]))
    /\ (ev.result = "gate") <=> (ev.gate # <<>>)
    /\ (ev.delivery # NoCategory) <=>
         (\A i \in DOMAIN channels : Member(ev.snap[channels[i].channel_id]))
    /\ (ev.gate # <<>>) => (ev.sends = <<>>)

\* The channel tables obtained from chs by removing channels.
RECURSIVE SubTables(_)
SubTables(chs) ==
  IF chs = <<>> THEN {<<>>}
  ELSE LET rest == SubTables(Tail(chs))
       IN  rest \cup {<<Head(chs)>> \o t : t \in rest}

Granted(user_id, chs, kch, snap) == CanAccess(user_id, chs, kch, snap).path = "deliver"

\* C6: for every non-administrator, every membership snapshot and every
\* outcome of the channel fetch, if the evaluation against the registered
\* channels is Granted then so is the evaluation against the channels that
\* remain after removing any of them; and a user who is a member of every
\* registered channel is Granted.
C6_AccessMonotonic ==
  \A u \in Users \ ADMIN_IDS, snap \in Snapshots, kch \in RetryOutcomes :
    /\ Granted(u, channels, kch, snap) =>
         (\A sub \in SubTables(channels) : Granted(u, sub, kch, snap))
    /\ (\A i \in DOMAIN channels : Member(snap[channels[i].channel_id])) =>
         Granted(u, channels, kch, snap)

\* A non-administrator who owns one registered channel and is an ordinary
\* member of the other is served.
C6_Witness ==
  /\ AccessEvent /\ ev.user \notin ADMIN_IDS /\ ev.delivery # NoCategory
  /\ Len(channels) = 2 /\ Len(ev.queries) = 2
  /\ ev.snap[channels[1].channel_id] = "creator"
  /\ ev.snap[channels[2].channel_id] = "member"

\* C27 (as claimed): in a category request by a non-administrator who is not
\* a member of some registered channel, send_category_files is not called and
\* no file is sent, whether the SELECT of get_channels succeeded or raised on
\* every attempt: the result of a failed fetch is not read as an empty
\* channel table.
C27_FailedFetchKeepsGate ==
  (AccessEvent /\ ev.user \notin ADMIN_IDS
     /\ \E i \in DOMAIN channels : ~Member(ev.snap[channels[i].channel_id])) =>
    /\ ev.delivery = NoCategory
    /\ ev.sends = <<>>
    /\ ev.fetched = <<>> => ev.result # "sent"

\* What holds of the gate for both kinds of request (deep link and re-check
\* button): when get_channels returned the channel table, a non-administrator
\* who is missing a registered channel is shown the gate and is sent nothing.
GateKeptWhenFetched ==
  (AccessEvent /\ ev.user \notin ADMIN_IDS /\ ev.fetched = channels
     /\ ev.result # "AttributeError"
     /\ \E i \in DOMAIN channels : ~Member(ev.snap[channels[i].channel_id])) =>
    /\ ev.result = "gate"
    /\ ev.delivery = NoCategory
    /\ ev.sends = <<>>

(***************************************************************************)
(* Upload sessions: /upload, media messages, /finish_upload, /cancel and   *)
(* the administration buttons that touch a session or its category.        *)
(* Application.builder() keeps the default of one update at a time, so a   *)
(* handler runs from its first statement to its last before the next one.  *)
(***************************************************************************)
SetKey(f, k, v) == [x \in (DOMAIN f) \cup {k} |-> IF x = k THEN v ELSE f[x]]

DelKey(f, k) == [x \in (DOMAIN f) \ {k} |-> f[x]]

SessionOf(p, user_id) == IF user_id \in DOMAIN p THEN <<p[user_id]>> ELSE <<>>

\* What a handler run starts from.
HandlerEvent(op, user_id) ==
  [NoEvent EXCEPT !.op = op, !.user = user_id, !.update = "Update",
                  !.categories0 = categories, !.files0 = files,
                  !.channels0 = channels,
                  !.session0 = SessionOf(pending_uploads, user_id),
                  !.chsession0 = SessionOf(pending_channel_data, user_id)]

\* No handler of main() takes the update: nothing runs.
Unhandled(user_id, text, cid) ==
  /\ ev' = [HandlerEvent("unhandled", user_id) EXCEPT
              !.update = "none", !.text = text, !.cat = cid]
  /\ UNCHANGED <<dbvars, sessionvars>>

\* The filter of the UPLOADING state of upload_conv_handler.
MediaFilter(m) == m.kind \in MediaKinds

\* /upload [category_id]: upload_command is the entry point of
\* upload_conv_handler, looked at only while the user's conversation is not
\* running (allow_reentry is off).
UploadCommand(user_id, args, kcat) ==
  /\ Idle
  /\ IF upload_conv[user_id] # "END"
     THEN Unhandled(user_id, "/upload", IF args = <<>> THEN NoCategory ELSE args[1])
     ELSE LET e == [HandlerEvent("upload_command", user_id) EXCEPT !.text = "/upload"] IN
          /\ UNCHANGED <<dbvars, pending_channel_data, channel_conv, delete_keyboard, taskvars>>
          /\ IF ~is_admin(user_id)
             THEN /\ ev' = [e EXCEPT !.result = "not_allowed"]
                  /\ UNCHANGED <<pending_uploads, upload_conv>>
             ELSE IF args = <<>>
             THEN /\ ev' = [e EXCEPT !.result = "usage"]
                  /\ UNCHANGED <<pending_uploads, upload_conv>>
             ELSE IF ~get_category_found(categories, args[1], kcat)
             THEN /\ ev' = [e EXCEPT !.result = "not_found", !.cat = args[1]]
                  /\ UNCHANGED <<pending_uploads, upload_conv>>
             ELSE /\ pending_uploads' =
                       SetKey(pending_uploads, user_id,
                              [category_id |-> args[1], files |-> <<>>])
                  /\ upload_conv' = [upload_conv EXCEPT ![user_id] = "UPLOADING"]
                  /\ ev' = [e EXCEPT !.result = "started", !.cat = args[1]]

\* A message with an attachment: handle_media, reached only in the UPLOADING
\* state and only for the five kinds of the filter.  A session takes at most
\* MaxBatch files here.
MediaMessage(user_id, m) ==
  /\ Idle
  /\ IF ~(upload_conv[user_id] = "UPLOADING" /\ MediaFilter(m))
     THEN Unhandled(user_id, "media", NoCategory)
     ELSE LET e == [HandlerEvent("handle_media", user_id) EXCEPT
                      !.received = <<m>>, !.text = "media"] IN
          /\ UNCHANGED <<dbvars, pending_channel_data, upload_conv, channel_conv, delete_keyboard, taskvars>>
          /\ IF user_id \notin DOMAIN pending_uploads
             THEN /\ ev' = [e EXCEPT !.result = "ignored"]
                  /\ UNCHANGED pending_uploads
             ELSE IF m.kind \notin MediaKinds
             THEN /\ ev' = [e EXCEPT !.result = "unsupported"]
                  /\ UNCHANGED pending_uploads
             ELSE /\ Len(pending_uploads[user_id].files) < MaxBatch
                  /\ pending_uploads' =
                       [pending_uploads EXCEPT
                          ![user_id].files = Append(@, extract_file_info(m))]
                  /\ ev' = [e EXCEPT !.result = "received",
                                     !.cat = pending_uploads[user_id].category_id]

\* Faulty variant: the session is kept when the batch could not be saved
finish_upload_keep_on_error(p, cats, rows, user_id, dberr) ==
  IF user_id \notin DOMAIN p
  THEN [pending |-> p, files |-> rows, db_calls |-> <<>>, result |-> "no_upload", reported |-> -1]
  ELSE LET upload_info == p[user_id] IN
       IF upload_info.files = <<>>
       THEN [pending |-> DelKey(p, user_id), files |-> rows, db_calls |-> <<>>,
             result |-> "no_files", reported |-> -1]
       ELSE IF add_files_ok(cats, rows, upload_info.category_id, upload_info.files, dberr)
       THEN [pending |-> DelKey(p, user_id),
             files |-> add_files_rows(cats, rows, upload_info.category_id,
                                      upload_info.files, dberr),
             db_calls |-> <<upload_info>>, result |-> "added",
             reported |-> Len(upload_info.files)]
       ELSE [pending |-> p, files |-> rows, db_calls |-> <<upload_info>>,
             result |-> "save_error", reported |-> -1]

\* finish_upload: the session map and the files table it leaves, the
\* add_files_to_category calls it makes (category_id and files of each), the
\* reply it gives and the number of files the success reply states
\* (len(upload_info['files'])).
finish_upload(p, cats, rows, user_id, dberr) ==
  IF user_id \notin DOMAIN p
  THEN [pending |-> p, files |-> rows, db_calls |-> <<>>, result |-> "no_upload", reported |-> -1]
  ELSE LET upload_info == p[user_id]
           popped == DelKey(p, user_id)
       IN  IF upload_info.files = <<>>
           THEN [pending |-> popped, files |-> rows, db_calls |-> <<>>,
                 result |-> "no_files", reported |-> -1]
           ELSE [pending |-> popped,
                 files |-> add_files_rows(cats, rows, upload_info.category_id,
                                          upload_info.files, dberr),
                 db_calls |-> <<[category_id |-> upload_info.category_id,
                                 files |-> upload_info.files]>>,
                 result |-> IF add_files_ok(cats, rows, upload_info.category_id,
                                            upload_info.files, dberr)
                            THEN "added" ELSE "save_error",
                 reported |-> IF add_files_ok(cats, rows, upload_info.category_id,
                                              upload_info.files, dberr)
                              THEN Len(upload_info.files) ELSE -1]

\* /finish_upload: a fallback of upload_conv_handler while the conversation
\* runs (which then ends), the handler registered last in main() otherwise.
FinishUploadCommand(user_id, dberr) ==
  LET r == finish_upload(pending_uploads, categories, files, user_id, dberr)
      called == r.db_calls # <<>>
  IN  /\ Idle
      /\ pending_uploads' = r.pending
      /\ files' = r.files
      /\ upload_conv' = [upload_conv EXCEPT ![user_id] = "END"]
      /\ ev' = [HandlerEvent("finish_upload", user_id) EXCEPT
                  !.text = "/finish_upload", !.result = r.result, !.db_calls = r.db_calls,
                  !.reported = r.reported,
                  !.dberr = called /\ dberr,
                  !.cat = IF called THEN r.db_calls[1].category_id ELSE NoCategory]
      /\ UNCHANGED <<categories, channels, pending_channel_data, channel_conv, delete_keyboard, taskvars>>

\* /cancel: a fallback of upload_conv_handler, else of channel_conv_handler,
\* each looked at only while its conversation runs.
CancelCommand(user_id) ==
  /\ Idle
  /\ IF upload_conv[user_id] = "END" /\ channel_conv[user_id] = "END"
     THEN Unhandled(user_id, "/cancel", NoCategory)
     ELSE /\ pending_uploads' = DelKey(pending_uploads, user_id)
          /\ pending_channel_data' = DelKey(pending_channel_data, user_id)
          /\ IF upload_conv[user_id] # "END"
             THEN /\ upload_conv' = [upload_conv EXCEPT ![user_id] = "END"]
                  /\ UNCHANGED channel_conv
             ELSE /\ channel_conv' = [channel_conv EXCEPT ![user_id] = "END"]
                  /\ UNCHANGED upload_conv
          /\ ev' = [HandlerEvent("cancel", user_id) EXCEPT
                      !.text = "/cancel", !.result = "cancelled"]
          /\ UNCHANGED <<dbvars, delete_keyboard, taskvars>>

\* /add_channel: add_channel is the entry point of channel_conv_handler.
AddChannelCommand(user_id) ==
  /\ Idle
  /\ IF channel_conv[user_id] # "END"
     THEN Unhandled(user_id, "/add_channel", NoCategory)
     ELSE /\ channel_conv' =
               [channel_conv EXCEPT ![user_id] =
                  IF is_admin(user_id) THEN "WAITING_FOR_CHANNEL_INFO" ELSE "END"]
          /\ ev' = [HandlerEvent("add_channel", user_id) EXCEPT
                      !.text = "/add_channel",
                      !.result = IF is_admin(user_id) THEN "asked" ELSE "not_allowed"]
          /\ UNCHANGED <<dbvars, pending_uploads, pending_channel_data, upload_conv, delete_keyboard, taskvars>>

\* Callback add_<category_id>: button_handler -> start_adding_files.
ButtonAdd(user_id, cid) ==
  /\ Idle
  /\ IF is_admin(user_id)
     THEN /\ pending_uploads' =
               SetKey(pending_uploads, user_id, [category_id |-> cid, files |-> <<>>])
          /\ ev' = [HandlerEvent("start_adding_files", user_id) EXCEPT
                      !.update = "CallbackQuery", !.cat = cid, !.result = "started"]
     ELSE /\ UNCHANGED pending_uploads
          /\ ev' = [HandlerEvent("button_handler", user_id) EXCEPT
                      !.update = "CallbackQuery", !.cat = cid, !.result = "not_allowed"]
  /\ UNCHANGED <<dbvars, pending_channel_data, upload_conv, channel_conv, delete_keyboard, taskvars>>

\* Callback confirm_del_cat_<category_id>: button_handler -> delete_category.
ButtonConfirmDeleteCategory(user_id, cid, kget, kdel) ==
  /\ Idle
  /\ IF ~is_admin(user_id)
     THEN /\ UNCHANGED <<categories, files>>
          /\ ev' = [HandlerEvent("button_handler", user_id) EXCEPT
                      !.update = "CallbackQuery", !.cat = cid, !.result = "not_allowed"]
     ELSE LET e == [HandlerEvent("delete_category", user_id) EXCEPT
                      !.update = "CallbackQuery", !.cat = cid]
          IN  IF ~get_category_found(categories, cid, kget)
              THEN /\ UNCHANGED <<categories, files>>
                   /\ ev' = [e EXCEPT !.result = "not_found"]
              ELSE /\ categories' = delete_category_cats(categories, cid, kdel)
                   /\ files' = delete_category_files(files, cid, kdel)
                   /\ ev' = [e EXCEPT !.result = IF delete_category_ok(kdel)
                                                 THEN "deleted" ELSE "error"]
  /\ UNCHANGED <<channels, sessionvars>>

\* The upload specification: one administrator and one other user, the
\* categories "A" and "B" left by an earlier run, no file stored yet, and the
\* messages that carry the file ids f1 (twice) and f2, and a sticker.
UploadUsers == {1, 3}

UploadMessages == {m \in Messages : m.file_id \in {"f1", "f2", "s1"}}

UploadArgs == {<<>>} \cup {<<cid>> : cid \in CategoryIds}

InitUpload ==
  /\ categories = add_category_rows(StoredCategories, "B", "n2", 1, 0)
  /\ files = <<>>
  /\ channels = <<>>
  /\ pending_uploads = [u \in {} |-> 0]
  /\ pending_channel_data = [u \in {} |-> 0]
  /\ upload_conv = [u \in Users |-> "END"]
  /\ channel_conv = [u \in Users |-> "END"]
  /\ delete_keyboard = [u \in Users |-> <<>>]
  /\ awaiting = EmptyBag
  /\ acknowledged = [u \in Users |-> <<>>]
  /\ ev = NoEvent

NextUpload ==
  \/ Idle /\ \E u \in UploadUsers, args \in UploadArgs, k \in RetryOutcomes :
               UploadCommand(u, args, k)
  \/ Idle /\ \E u \in UploadUsers, m \in UploadMessages : MediaMessage(u, m)
  \/ Idle /\ \E u \in UploadUsers, dberr \in BOOLEAN : FinishUploadCommand(u, dberr)
  \/ Idle /\ \E u \in UploadUsers : CancelCommand(u)
  \/ Idle /\ \E u \in UploadUsers : AddChannelCommand(u)
  \/ Idle /\ \E u \in UploadUsers, cid \in CategoryIds : ButtonAdd(u, cid)
  \/ Idle /\ \E u \in UploadUsers, cid \in CategoryIds, kget, kdel \in RetryOutcomes :
               ButtonConfirmDeleteCategory(u, cid, kget, kdel)
  \/ Return

SpecUpload == InitUpload /\ [][NextUpload]_vars

UploadStartRequested ==
  /\ ev.user \in ADMIN_IDS
  /\ ev.cat # NoCategory
  /\ \/ ev.text = "/upload" /\ ev.result # "not_found"
                            /\ CategoryExists(ev.categories0, ev.cat)
     \/ ev.op = "start_adding_files"

\* C11 (as claimed): when an administrator who holds an unfinished session
\* for one category starts an upload for a different category, the session
\* becomes an empty one for the new category (no merge); and a finish stores
\* rows only for files of the session, in the session's category, and removes
\* none.
C11_SecondStartReplaces ==
  /\ (UploadStartRequested /\ ev.session0 # <<>>
        /\ ev.session0[1].category_id # ev.cat) =>
       /\ ev.user \in DOMAIN pending_uploads
       /\ pending_uploads[ev.user] = [category_id |-> ev.cat, files |-> <<>>]
  /\ (ev.op = "finish_upload" /\ ev.session0 # <<>>) =>
       /\ Len(files) >= Len(ev.files0)
       /\ \A i \in DOMAIN ev.files0 : WithoutDate(files[i]) = WithoutDate(ev.files0[i])
       /\ \A i \in (Len(ev.files0) + 1)..Len(files) :
            /\ files[i].category_id = ev.session0[1].category_id
            /\ files[i].file_id \in FileIdsOf(ev.session0[1].files)

\* What does hold: the button add_ replaces the session by an empty one for
\* its category, and so does /upload while no upload conversation is running.
StartReplacesOutsideConversation ==
  (UploadStartRequested /\ ev.op # "unhandled") =>
    /\ ev.user \in DOMAIN pending_uploads
    /\ pending_uploads[ev.user] = [category_id |-> ev.cat, files |-> <<>>]

StorageUnchanged ==
  /\ categories = ev.categories0
  /\ files = ev.files0
  /\ channels = ev.channels0

\* C12 (as claimed): /cancel by a user who has a pending upload removes it
\* and changes no table; and /finish_upload by a user without a pending upload
\* (as after a cancel) calls no insert and changes no table.
C12_CancelDiscards ==
  /\ (ev.text = "/cancel" /\ ev.session0 # <<>>) =>
       /\ ev.user \notin DOMAIN pending_uploads
       /\ StorageUnchanged
  /\ (ev.op = "finish_upload" /\ ev.session0 = <<>>) =>
       /\ ev.db_calls = <<>>
       /\ ev.result = "no_upload"
       /\ ev.user \notin DOMAIN pending_uploads
       /\ StorageUnchanged

\* What does hold: whenever the cancel handler runs, the user is left without
\* a pending upload and no table is changed.
CancelHandlerDiscards ==
  (ev.op = "cancel") =>
    /\ ev.user \notin DOMAIN pending_uploads
    /\ StorageUnchanged

(***************************************************************************)
(* Channel registration: /add_channel and the three text messages          *)
(***************************************************************************)
\* Plain-text messages, none of them blank.
Texts == {"c1", " c1 ", "t"}

\* text.strip()
Strip(text) == IF text = " c1 " THEN "c1" ELSE text

EmptyChannelData == [channel_id |-> "", channel_name |-> "", invite_link |-> ""]

\* Faulty variant: the pending registration is kept when add_channel fails
handle_channel_info_keep_on_error(p, chs, user_id, message_text, k) ==
  LET text == Strip(message_text)
      channel_data == IF user_id \in DOMAIN p THEN p[user_id] ELSE EmptyChannelData
  IN  IF channel_data.channel_id = ""
      THEN [pending |-> SetKey(p, user_id, [channel_data EXCEPT !.channel_id = text]),
            channels |-> chs, channel_calls |-> <<>>, result |-> "id_received",
            next |-> "WAITING_FOR_CHANNEL_INFO"]
      ELSE IF channel_data.channel_name = ""
      THEN [pending |-> SetKey(p, user_id, [channel_data EXCEPT !.channel_name = text]),
            channels |-> chs, channel_calls |-> <<>>, result |-> "name_received",
            next |-> "WAITING_FOR_CHANNEL_INFO"]
      ELSE IF add_channel_ok(chs, channel_data.channel_id, k)
      THEN [pending |-> DelKey(p, user_id),
            channels |-> add_channel_rows(chs, channel_data.channel_id,
                                          channel_data.channel_name, text, k),
            channel_calls |-> <<[channel_data EXCEPT !.invite_link = text]>>,
            result |-> "added", next |-> "END"]
      ELSE [pending |-> SetKey(p, user_id, [channel_data EXCEPT !.invite_link = text]),
            channels |-> chs,
            channel_calls |-> <<[channel_data EXCEPT !.invite_link = text]>>,
            result |-> "add_error", next |-> "END"]

\* handle_channel_info: the registration map and the channels table it
\* leaves, the add_channel calls it makes (the three arguments of each), its
\* reply and the conversation state it returns.
handle_channel_info(p, chs, user_id, message_text, k) ==
  LET text == Strip(message_text)
      channel_data == IF user_id \in DOMAIN p THEN p[user_id] ELSE EmptyChannelData
  IN  IF channel_data.channel_id = ""
      THEN [pending |-> SetKey(p, user_id, [channel_data EXCEPT !.channel_id = text]),
            channels |-> chs, channel_calls |-> <<>>, result |-> "id_received",
            next |-> "WAITING_FOR_CHANNEL_INFO"]
      ELSE IF channel_data.channel_name = ""
      THEN [pending |-> SetKey(p, user_id, [channel_data EXCEPT !.channel_name = text]),
            channels |-> chs, channel_calls |-> <<>>, result |-> "name_received",
            next |-> "WAITING_FOR_CHANNEL_INFO"]
      ELSE IF channel_data.invite_link = ""
      THEN [pending |-> DelKey(p, user_id),
            channels |-> add_channel_rows(chs, channel_data.channel_id,
                                          channel_data.channel_name, text, k),
            channel_calls |-> <<[channel_id |-> channel_data.channel_id,
                                 channel_name |-> channel_data.channel_name,
                                 invite_link |-> text]>>,
            result |-> IF add_channel_ok(chs, channel_data.channel_id, k)
                       THEN "added" ELSE "add_error",
            next |-> "END"]
      ELSE [pending |-> p, channels |-> chs, channel_calls |-> <<>>,
            result |-> "none", next |-> "END"]

\* A text message that is no command: the state handler of
\* channel_conv_handler, looked at only while the user's channel conversation
\* waits (the upload conversation takes media messages only).
TextMessage(user_id, message_text, k) ==
  /\ Idle
  /\ IF channel_conv[user_id] # "WAITING_FOR_CHANNEL_INFO"
     THEN Unhandled(user_id, message_text, NoCategory)
     ELSE LET r == handle_channel_info(pending_channel_data, channels, user_id,
                                       message_text, k)
          IN  /\ pending_channel_data' = r.pending
              /\ channels' = r.channels
              /\ channel_conv' = [channel_conv EXCEPT ![user_id] = r.next]
              /\ ev' = [HandlerEvent("handle_channel_info", user_id) EXCEPT
                          !.text = message_text, !.result = r.result,
                          !.channel_calls = r.channel_calls]
              /\ UNCHANGED <<categories, files, pending_uploads, upload_conv, delete_keyboard, taskvars>>

\* The session specification: both conversations of one administrator and
\* of one other user, over the category "A" and one document.
SessionMessages == {m \in Messages : m.kind = "document"}

InitSessions ==
  /\ categories = StoredCategories
  /\ files = <<>>
  /\ channels = <<>>
  /\ pending_uploads = [u \in {} |-> 0]
  /\ pending_channel_data = [u \in {} |-> 0]
  /\ upload_conv = [u \in Users |-> "END"]
  /\ channel_conv = [u \in Users |-> "END"]
  /\ delete_keyboard = [u \in Users |-> <<>>]
  /\ awaiting = EmptyBag
  /\ acknowledged = [u \in Users |-> <<>>]
  /\ ev = NoEvent

NextSessions ==
  \/ Idle /\ \E u \in UploadUsers : UploadCommand(u, <<"A">>, 0)
  \/ Idle /\ \E u \in UploadUsers, m \in SessionMessages : MediaMessage(u, m)
  \/ Idle /\ \E u \in UploadUsers, dberr \in BOOLEAN : FinishUploadCommand(u, dberr)
  \/ Idle /\ \E u \in UploadUsers : CancelCommand(u)
  \/ Idle /\ \E u \in UploadUsers : AddChannelCommand(u)
  \/ Idle /\ \E u \in UploadUsers : ButtonAdd(u, "A")
  \/ Idle /\ \E u \in UploadUsers, t \in Texts, k \in RetryOutcomes : TextMessage(u, t, k)
  \/ Return

SpecSessions == InitSessions /\ [][NextSessions]_vars

(***************************************************************************)
(* Claims about the two conversations (checked under SpecSessions)         *)
(***************************************************************************)
ChannelData0 == IF ev.chsession0 = <<>> THEN EmptyChannelData ELSE ev.chsession0[1]

\* C13: a pending registration holds a channel_id alone or a channel_id and
\* a channel_name, never an invite_link; a text message to the waiting
\* conversation fills channel_id when none is pending, channel_name when only
\* the id is, and without calling add_channel in either case; the message
\* after those is the invite_link: add_channel is called once with the id,
\* the name and the link in that order, and the registration is gone and the
\* conversation over whether the call succeeded or not.
C13_ChannelFlowOrder ==
  /\ \A u \in DOMAIN pending_channel_data :
       /\ pending_channel_data[u].channel_id # ""
       /\ pending_channel_data[u].invite_link = ""
  /\ (ev.op = "handle_channel_info") =>
       IF ChannelData0.channel_id = ""
       THEN /\ ev.chsession0 = <<>>
            /\ SessionOf(pending_channel_data, ev.user) =
                 <<[EmptyChannelData EXCEPT !.channel_id = Strip(ev.text)]>>
            /\ ev.channel_calls = <<>>
            /\ channels = ev.channels0
            /\ channel_conv[ev.user] = "WAITING_FOR_CHANNEL_INFO"
       ELSE IF ChannelData0.channel_name = ""
       THEN /\ SessionOf(pending_channel_data, ev.user) =
                 <<[ChannelData0 EXCEPT !.channel_name = Strip(ev.text)]>>
            /\ ev.channel_calls = <<>>
            /\ channels = ev.channels0
            /\ channel_conv[ev.user] = "WAITING_FOR_CHANNEL_INFO"
       ELSE /\ ev.channel_calls = <<[channel_id |-> ChannelData0.channel_id,
                                     channel_name |-> ChannelData0.channel_name,
                                     invite_link |-> Strip(ev.text)]>>
            /\ ev.user \notin DOMAIN pending_channel_data
            /\ channel_conv[ev.user] = "END"
            /\ ev.result \in {"added", "add_error"}
            /\ (ev.result = "add_error") => (channels = ev.channels0)

\* The third message of a registration whose channel_id is registered
\* already: add_channel is called, fails, and the registration is gone.
C13_Witness ==
  /\ ev.op = "handle_channel_info"
  /\ ev.result = "add_error"
  /\ Len(ev.channel_calls) = 1
  /\ ChannelStored(ev.channels0, ev.channel_calls[1].channel_id)
  /\ ev.channel_calls[1].channel_name = "t"
  /\ ev.user \notin DOMAIN pending_channel_data

\* C14 (as claimed): an event of the upload flow (/upload, the add_ button,
\* a media message, /finish_upload, /cancel of a pending upload) leaves the
\* user's pending channel registration as it was, and an event of the channel
\* flow (/add_channel, a text message, /cancel of a pending registration)
\* leaves the user's pending upload as it was.
C14_FlowsIndependent ==
  /\ (\/ ev.op \in {"upload_command", "start_adding_files", "handle_media",
                    "finish_upload"}
      \/ ev.op = "cancel" /\ ev.session0 # <<>>) =>
       SessionOf(pending_channel_data, ev.user) = ev.chsession0
  /\ (\/ ev.op \in {"add_channel", "handle_channel_info"}
      \/ ev.op = "cancel" /\ ev.chsession0 # <<>>) =>
       SessionOf(pending_uploads, ev.user) = ev.session0

\* What does hold: every handler but cancel leaves the other flow's map alone.
FlowsIndependentButCancel ==
  /\ (ev.op \in {"upload_command", "start_adding_files", "handle_media",
                 "finish_upload"}) =>
       SessionOf(pending_channel_data, ev.user) = ev.chsession0
  /\ (ev.op \in {"add_channel", "handle_channel_info"}) =>
       SessionOf(pending_uploads, ev.user) = ev.session0

(***************************************************************************)
(* Claims about delivery (checked under SpecAccess)                        *)
(***************************************************************************)
\* C15: a delivery by send_category_files makes one send attempt for every
\* file of the category, each file once, in the order of the category's
\* listing (ascending upload_date), whichever of the sends fail.
C15_OneSendPerFile ==
  (ev.op = "handle_category_access" /\ ev.result = "sent") =>
    \E fl \in FileLists(files, ev.cat) :
      /\ fl # <<>>
      /\ Len(ev.sends) = Len(fl)
      /\ \A i \in DOMAIN fl : ev.sends[i].file_id = fl[i].file_id

\* A delivery of three files whose first send fails: the second and third
\* are attempted all the same.
C15_Witness ==
  /\ ev.op = "handle_category_access" /\ ev.result = "sent"
  /\ Len(ev.sends) = 3
  /\ ~ev.sends[1].ok
  /\ ev.sends[2].ok /\ ev.sends[3].ok

\* The send operation the specification gives each kind of file.
OperationOfKind(file_type) ==
  CASE file_type = "document" -> "send_document"
    [] file_type = "photo" -> "send_photo"
    [] file_type = "video" -> "send_video"
    [] file_type = "audio" -> "send_audio"
    [] file_type = "voice" -> "send_voice"

MatchingSends(sends, fl) ==
  /\ Len(sends) = Len(fl)
  /\ \A i \in DOMAIN fl :
       /\ sends[i].method = OperationOfKind(fl[i].file_type)
       /\ sends[i].file_id = fl[i].file_id
       /\ sends[i].caption = fl[i].caption

\* C16 (as claimed): every delivery of a category, by send_category_files or
\* by the administrators' view_category_files, issues for every stored file
\* one send of the operation of its file_type, with its file_id and caption.
C16_DispatchByKind ==
  (ev.op \in {"handle_category_access", "view_category_files"} /\ ev.result = "sent") =>
    \E fl \in FileLists(files, ev.cat) : MatchingSends(ev.sends, fl)

\* What does hold: the dispatch of send_category_files.
DispatchByKindForUsers ==
  (ev.op = "handle_category_access" /\ ev.result = "sent") =>
    \E fl \in FileLists(files, ev.cat) : MatchingSends(ev.sends, fl)

RemovedListed(fl) ==
  \E k \in DOMAIN ev.files0 :
    /\ ev.files0[k] = fl[ev.file_index + 1]
    /\ SameFiles(files, RemoveAt(ev.files0, k))

InRange ==
  /\ ev.op = "delete_file" /\ ~ev.dberr
  /\ 0 <= ev.file_index
  /\ ev.file_index < Len(FilesOfCategory(ev.files0, ev.cat))

\* C18: delete_file(category, i) with 0 <= i < n removes exactly the file
\* that get_category lists at zero-based position i: whatever list
\* get_category gives for the category, the row removed is the one at
\* position i of it, the other files of the category keep their order and the
\* files of other categories stay as they were.
C18_DeleteAtPosition ==
  InRange =>
    /\ ev.result = "True"
    /\ \A fl \in FileLists(ev.files0, ev.cat) : RemovedListed(fl)

DistinctDates(rows, cid) ==
  \A i, j \in RowsOf(rows, cid) : rows[i].upload_date = rows[j].upload_date => i = j

\* What holds of delete_file in range: exactly one file of the category is
\* removed, it is one that some list of get_category shows at position i, and
\* it is the one every list shows there when the upload dates of the category
\* are pairwise distinct.
DeleteAtPositionOfSomeList ==
  InRange =>
    /\ ev.result = "True"
    /\ \E fl \in FileLists(ev.files0, ev.cat) : RemovedListed(fl)
    /\ DistinctDates(ev.files0, ev.cat) =>
         \A fl \in FileLists(ev.files0, ev.cat) : RemovedListed(fl)

(***************************************************************************)
(* Claims about the order of a category's list (checked under SpecUpload)  *)
(***************************************************************************)
\* The position at which the administrator first sent the file.
SentAt(infos, fid) ==
  CHOOSE i \in DOMAIN infos :
    /\ infos[i].file_id = fid
    /\ \A j \in 1..(i - 1) : infos[j].file_id # fid

FinishStored == ev.op = "finish_upload" /\ ev.result = "added"

\* In the list fl the rows stored before the finish come first.
EarlierFirst(fl) ==
  \A i, j \in DOMAIN fl :
    (FileIdStored(ev.files0, fl[j].file_id) /\ ~FileIdStored(ev.files0, fl[i].file_id))
      => j < i

\* In the list fl the rows stored by the finish are in the order sent.
InOrderSent(fl) ==
  \A i, j \in DOMAIN fl :
    (/\ i < j
     /\ ~FileIdStored(ev.files0, fl[i].file_id)
     /\ ~FileIdStored(ev.files0, fl[j].file_id))
      => SentAt(ev.session0[1].files, fl[i].file_id)
           < SentAt(ev.session0[1].files, fl[j].file_id)

\* C19: after a /finish_upload that stored its files, every list get_category
\* gives for the category shows the files of this finish in the order in which
\* the administrator sent them, after all files stored in it before.
C19_ListInSendOrder ==
  FinishStored =>
    \A fl \in FileLists(files, ev.cat) : EarlierFirst(fl) /\ InOrderSent(fl)

\* What holds: the files of a finish come after the earlier ones in every
\* list, and some list has them in the order sent.
ListAfterEarlier ==
  FinishStored =>
    /\ \A fl \in FileLists(files, ev.cat) : EarlierFirst(fl)
    /\ \E fl \in FileLists(files, ev.cat) : InOrderSent(fl)

(***************************************************************************)
(* Claims about categories (checked under SpecDb)                          *)
(***************************************************************************)
CategoriesDistinct ==
  \A i, j \in DOMAIN categories :
    (categories[i].name = categories[j].name \/ categories[i].id = categories[j].id)
      => i = j

\* add_category was called, by new_category or by any other caller.
CreateCalled == ev.op \in {"add_category", "new_category"} /\ ev.name # "none"

CreateFailed ==
  /\ ev.result \in {"False", "error"}
  /\ categories = ev.categories0
  /\ files = ev.files0

CreateAddedOne ==
  /\ ev.result \in {"True", "created"}
  /\ Len(categories) = Len(ev.categories0) + 1
  /\ SubSeq(categories, 1, Len(ev.categories0)) = ev.categories0
  /\ categories[Len(categories)].id = ev.cat
  /\ categories[Len(categories)].name = ev.name
  /\ FilesOfCategory(files, ev.cat) = <<>>
  /\ files = ev.files0

ButtonShowFiles(user_id, cid, kcat, fl) ==
  /\ Idle
  /\ LET e == [HandlerEvent("show_files_for_deletion", user_id) EXCEPT
                 !.update = "CallbackQuery", !.cat = cid]
     IN  IF ~is_admin(user_id)
         THEN /\ ev' = [e EXCEPT !.op = "button_handler", !.result = "not_allowed"]
              /\ UNCHANGED delete_keyboard
         ELSE IF ~get_category_found(categories, cid, kcat) \/ fl = <<>>
         THEN /\ ev' = [e EXCEPT !.result = "no_files"]
              /\ delete_keyboard' = [delete_keyboard EXCEPT ![user_id] = <<>>]
         ELSE /\ ev' = [e EXCEPT !.result = "listed"]
              /\ delete_keyboard' =
                   [delete_keyboard EXCEPT ![user_id] =
                      <<[category_id |-> cid,
                         files |-> [i \in DOMAIN fl |-> FileDict(fl[i])]]>>]
  /\ UNCHANGED <<dbvars, pending_uploads, pending_channel_data, upload_conv, channel_conv,
                 taskvars>>

\* A user presses the button del_file_<category_id>_<file_index> of the
\* keyboard shown to owner (to themselves, or in a chat they share):
\* button_handler -> delete_file_from_category -> delete_file.  The answer
\* replaces the keyboard.
ButtonDelFile(user_id, owner, file_index, dberr) ==
  /\ Idle
  /\ delete_keyboard[owner] # <<>>
  /\ file_index < Len(delete_keyboard[owner][1].files)
  /\ LET cid == delete_keyboard[owner][1].category_id
         e == [HandlerEvent("delete_file_from_category", user_id) EXCEPT
                 !.update = "CallbackQuery", !.cat = cid, !.file_index = file_index,
                 !.listing = delete_keyboard[owner][1].files]
     IN  IF ~is_admin(user_id)
         THEN /\ ev' = [e EXCEPT !.op = "button_handler", !.result = "not_allowed"]
              /\ UNCHANGED files
         ELSE IF ~dberr /\ \E i \in DOMAIN files : MayBeAtOffset(files, cid, i, file_index)
         THEN /\ \E i \in DOMAIN files :
                   /\ MayBeAtOffset(files, cid, i, file_index)
                   /\ files' = Renumber(RemoveAt(files, i))
              /\ ev' = [e EXCEPT !.result = "deleted"]
         ELSE /\ UNCHANGED files
              /\ ev' = [e EXCEPT !.result = "error", !.dberr = dberr]
  /\ delete_keyboard' = [delete_keyboard EXCEPT ![owner] = <<>>]
  /\ UNCHANGED <<categories, channels, pending_uploads, pending_channel_data,
                 upload_conv, channel_conv, taskvars>>

(***************************************************************************)
(* Every handler of main(), for one administrator and one other user       *)
(***************************************************************************)
\* What Telegram answers in this specification: the user has left every
\* channel.
HandlerSnapshots == {[c \in ChannelIds |-> "left"]}

\* The messages sent: a document (f1), a photo (f2) and a sticker.
HandlerMessages ==
  {m \in Messages : m.kind \in {"document", "sticker"} \/ m.file_id = "f2"}

NextHandlers ==
  \/ Idle /\ \E u \in UploadUsers : UploadCommand(u, <<"A">>, 0)
  \/ Idle /\ \E u \in UploadUsers, m \in HandlerMessages : MediaMessage(u, m)
  \/ Idle /\ \E u \in UploadUsers : FinishUploadCommand(u, FALSE)
  \/ Idle /\ \E u \in UploadUsers : CancelCommand(u)
  \/ Idle /\ \E u \in UploadUsers : AddChannelCommand(u)
  \/ Idle /\ \E u \in UploadUsers : TextMessage(u, "c1", 0)
  \/ Idle /\ \E u \in UploadUsers : NewCategoryCommand(u, <<"n1", "n2">>, "B", 0)
  \/ Idle /\ \E u \in UploadUsers : remove_channel(u, "c1", 0)
  \/ Idle /\ \E u \in UploadUsers : ButtonAdd(u, "A")
  \/ Idle /\ \E u \in UploadUsers : ButtonConfirmDeleteCategory(u, "A", 0, 0)
  \/ Idle /\ \E u \in UploadUsers, cid \in CategoryIds :
               \E fl \in FileLists(files, cid) : ButtonView(u, cid, 0, fl, {})
  \/ Idle /\ \E u \in UploadUsers, cid \in CategoryIds :
               \E fl \in FileLists(files, cid) : ButtonShowFiles(u, cid, 0, fl)
  \/ Idle /\ \E u \in UploadUsers, owner \in UploadUsers, i \in 0..(MaxBatch - 1) :
               ButtonDelFile(u, owner, i, FALSE)
  \/ Idle /\ \E u \in UploadUsers, cid \in CategoryIds, snap \in HandlerSnapshots :
               \E fl \in FileLists(files, cid) :
                 StartCategory(u, cid, 0, snap, 0, fl, {})
  \/ Idle /\ \E u \in UploadUsers, cid \in CategoryIds, snap \in HandlerSnapshots :
               \E fl \in FileLists(files, cid) :
                 ButtonCheckMembership(u, cid, 0, snap, 0, fl, {})
  \/ Return

SpecHandlers == InitSessions /\ [][NextHandlers]_vars

(***************************************************************************)
(* The delete buttons with two administrators at work on one category      *)
(***************************************************************************)
\* Category "A" holds f3 and f1, stored by two separate calls (their upload
\* dates differ); both administrators list its files, press delete buttons of
\* either keyboard and upload f2 to it.
DeleteStoredFiles ==
  add_file_rows(StoredCategories,
                add_file_rows(StoredCategories, <<>>, "A", InfoOf("f3"), 0),
                "A", InfoOf("f1"), 0)

DeleteMessages == {m \in Messages : m.kind = "photo" /\ m.file_id = "f2"}

InitDeleteButtons ==
  /\ categories = StoredCategories
  /\ files = DeleteStoredFiles
  /\ channels = <<>>
  /\ pending_uploads = [u \in {} |-> 0]
  /\ pending_channel_data = [u \in {} |-> 0]
  /\ upload_conv = [u \in Users |-> "END"]
  /\ channel_conv = [u \in Users |-> "END"]
  /\ delete_keyboard = [u \in Users |-> <<>>]
  /\ awaiting = EmptyBag
  /\ acknowledged = [u \in Users |-> <<>>]
  /\ ev = NoEvent

NextDeleteButtons ==
  \/ Idle /\ \E u \in ADMIN_IDS : \E fl \in FileLists(files, "A") :
               ButtonShowFiles(u, "A", 0, fl)
  \/ Idle /\ \E u \in ADMIN_IDS, i \in 0..(MaxBatch - 1) : ButtonDelFile(u, u, i, FALSE)
  \/ Idle /\ \E u \in ADMIN_IDS : UploadCommand(u, <<"A">>, 0)
  \/ Idle /\ \E u \in ADMIN_IDS, m \in DeleteMessages : MediaMessage(u, m)
  \/ Idle /\ \E u \in ADMIN_IDS : FinishUploadCommand(u, FALSE)
  \/ Return

SpecDeleteButtons == InitDeleteButtons /\ [][NextDeleteButtons]_vars

DeleteButtonPressed == ev.op = "delete_file_from_category"

\* The press removed the stored file that the keyboard names at the button
\* pressed, and no other.
RemovedShown ==
  \E k \in DOMAIN ev.files0 :
    /\ ev.files0[k].category_id = ev.cat
    /\ ev.files0[k].file_id = ev.listing[ev.file_index + 1].file_id
    /\ SameFiles(files, RemoveAt(ev.files0, k))

\* C28 (as claimed): a press of the button del_file_<category>_<i> removes
\* the file that the keyboard it belongs to showed at position i, or removes
\* nothing, whatever the administrators deleted from or uploaded to the
\* category since the keyboard was made.
C28_StaleButtonDeletesShown ==
  DeleteButtonPressed => (RemovedShown \/ SameFiles(files, ev.files0))

\* The keyboard still shows the files of the category as they are stored.
KeyboardCurrent ==
  \E fl \in FileLists(ev.files0, ev.cat) :
    ev.listing = [i \in DOMAIN fl |-> FileDict(fl[i])]

\* What holds of a press: at most one file goes, of the category of the
\* keyboard; and when the keyboard is current and the upload dates of the
\* category differ, the file that goes is the one shown on the button.
CurrentButtonDeletesShown ==
  DeleteButtonPressed =>
    /\ \/ SameFiles(files, ev.files0)
       \/ \E k \in DOMAIN ev.files0 :
            /\ ev.files0[k].category_id = ev.cat
            /\ SameFiles(files, RemoveAt(ev.files0, k))
    /\ (KeyboardCurrent /\ DistinctDates(ev.files0, ev.cat)) =>
         (ev.result = "deleted" /\ RemovedShown)

(***************************************************************************)
(* The channel methods of DatabaseManager as steps                         *)
(***************************************************************************)
ChannelEvent(op, chid, ok, k) ==
  [NoEvent EXCEPT !.op = op, !.channel_id = chid,
                  !.result = IF ok THEN "True" ELSE "False",
                  !.executions = RetryExecutions(k), !.dberr = RetryRaises(k),
                  !.channels0 = channels]

DbAddChannel(chid, name, link, k) ==
  /\ Idle
  /\ channels' = add_channel_rows(channels, chid, name, link, k)
  /\ ev' = ChannelEvent("add_channel", chid, add_channel_ok(channels, chid, k), k)
  /\ UNCHANGED <<categories, files, sessionvars>>

DbGetChannels(k) ==
  /\ Idle
  /\ ev' = [ChannelEvent("get_channels", "none", TRUE, k) EXCEPT
              !.result = "none", !.listing = get_channels(channels, k)]
  /\ UNCHANGED <<dbvars, sessionvars>>

DbDeleteChannel(chid, k) ==
  /\ Idle
  /\ channels' = delete_channel_rows(channels, chid, k)
  /\ ev' = ChannelEvent("delete_channel", chid, delete_channel_ok(k), k)
  /\ UNCHANGED <<categories, files, sessionvars>>

ChannelNames == {"channel", "other"}

NextChannels ==
  \/ Idle /\ \E chid \in ChannelIds, name \in ChannelNames, k \in RetryOutcomes :
               DbAddChannel(chid, name, "https://t.me/+x", k)
  \/ Idle /\ \E k \in RetryOutcomes : DbGetChannels(k)
  \/ Idle /\ \E chid \in ChannelIds, k \in RetryOutcomes : DbDeleteChannel(chid, k)
  \/ Return

SpecChannels == Init /\ [][NextChannels]_vars

\* C24: the channel_ids of the stored channels are pairwise distinct;
\* add_channel with a stored channel_id returns False and leaves the table as
\* it was; get_channels, when its statement raises nothing, returns every
\* stored channel once, the one registered first first; delete_channel that
\* returned True removed the channel of that id and no other.
C24_ChannelCrud ==
  /\ \A i, j \in DOMAIN channels :
       channels[i].channel_id = channels[j].channel_id => i = j
  /\ (ev.op = "add_channel" /\ ChannelStored(ev.channels0, ev.channel_id)) =>
       ev.result = "False" /\ channels = ev.channels0
  /\ (ev.op = "get_channels" /\ ~ev.dberr) => ev.listing = channels
  /\ (ev.op = "delete_channel" /\ ev.result = "True") =>
       /\ ~ChannelStored(channels, ev.channel_id)
       /\ channels = SelectSeq(ev.channels0, LAMBDA c : c.channel_id # ev.channel_id)
  /\ (ev.op = "delete_channel" /\ ev.result = "False") => channels = ev.channels0

\* add_channel is called with the channel_id of the second of two stored
\* channels and another name: False, and both channels are as they were.
C24_Witness ==
  /\ ev.op = "add_channel" /\ ~ev.dberr
  /\ Len(ev.channels0) = 2
  /\ ev.channels0[2].channel_id = ev.channel_id
  /\ ev.result = "False"
  /\ channels = ev.channels0

(***************************************************************************)
(* Claims about a failing batch (checked under SpecDb)                     *)
(***************************************************************************)
BatchFailed == ev.op = "add_files_to_category" /\ ev.result # "True"

\* C25: when add_files_to_category does not succeed (the statement or the
\* commit raised, or a row was refused because the category is not stored),
\* no row of the batch is stored, the call returns False and the statement
\* was attempted once.
C25_BatchFailureRollsBack ==
  /\ BatchFailed =>
       /\ files = ev.files0
       /\ ev.result = "False"
       /\ ev.executions = 1
  /\ (ev.op = "add_files_to_category"
        /\ (ev.dberr \/ BatchFkViolation(ev.categories0, ev.files0, ev.cat, ev.batch)))
       => BatchFailed

\* What holds: a batch that does not succeed stores nothing and is attempted
\* once; it returns False whenever rollback() can run, and a batch refused
\* for its category always returns False.
BatchFailureStoresNothing ==
  /\ BatchFailed =>
       /\ files = ev.files0
       /\ ev.executions = 1
       /\ ev.result \in {"False", "InterfaceError"}
       /\ ev.result = "InterfaceError" => ev.dberr
  /\ (ev.op = "add_files_to_category"
        /\ (ev.dberr \/ BatchFkViolation(ev.categories0, ev.files0, ev.cat, ev.batch)))
       => BatchFailed

(***************************************************************************)
(* _execute_with_retry, attempt by attempt                                 *)
(***************************************************************************)
\* What one attempt meets: the statement and the commit run ("ok"), they
\* raise psycopg2.OperationalError, or they raise any other exception.
AttemptOutcomes == {"ok", "OperationalError", "Exception"}

\* The fetch argument, and what the call returns for it when the statement
\* ran: cursor.fetchone(), cursor.fetchall(), or None.
FetchArguments == {"one", "all", "None"}

Fetched(fetch) ==
  IF fetch = "one" THEN "fetchone" ELSE IF fetch = "all" THEN "fetchall" ELSE "None"

\* The loop from the given attempt (counted from zero, as range() does) on.
\* outcomes[i] is what attempt i - 1 meets, connects[i] whether the reconnect
\* after it succeeds.  The result: how often the statement was executed, the
\* reconnects attempted, and whether the call returned or raised.
\* Faulty variant: one attempt more than max_retries
RECURSIVE execute_with_retry_one_more(_, _, _, _, _)
execute_with_retry_one_more(fetch, outcomes, connects, attempt, done) ==
  LET o == outcomes[IF attempt < Len(outcomes) THEN attempt + 1 ELSE Len(outcomes)]
      now == [done EXCEPT !.executions = @ + 1]
  IN  IF o = "ok" THEN [now EXCEPT !.result = "returned", !.value = Fetched(fetch)]
      ELSE IF o = "OperationalError"
      THEN IF attempt < max_retries
           THEN execute_with_retry_one_more(fetch, outcomes, connects, attempt + 1,
                  [now EXCEPT !.reconnects = Append(@, TRUE)])
           ELSE [now EXCEPT !.result = "OperationalError"]
      ELSE [now EXCEPT !.result = "Exception"]

RECURSIVE execute_with_retry(_, _, _, _, _)
execute_with_retry(fetch, outcomes, connects, attempt, done) ==
  IF attempt >= max_retries THEN [done EXCEPT !.result = "returned", !.value = "None"]
  ELSE LET o == outcomes[attempt + 1]
           now == [done EXCEPT !.executions = @ + 1]
       IN  IF o = "ok" THEN [now EXCEPT !.result = "returned", !.value = Fetched(fetch)]
           ELSE IF o = "OperationalError"
           THEN IF attempt < max_retries - 1
                THEN execute_with_retry(fetch, outcomes, connects, attempt + 1,
                       [now EXCEPT !.reconnects = Append(@, connects[attempt + 1])])
                ELSE [now EXCEPT !.result = "OperationalError"]
           ELSE [now EXCEPT !.result = "Exception"]

NotStarted == [executions |-> 0, reconnects |-> <<>>, result |-> "running", value |-> "none"]

\* One call of _execute_with_retry.
ExecuteWithRetry(fetch, outcomes, connects) ==
  LET r == execute_with_retry(fetch, outcomes, connects, 0, NotStarted) IN
  /\ Idle
  /\ ev' = [NoEvent EXCEPT !.op = "_execute_with_retry", !.outcomes = outcomes,
                           !.fetch = fetch, !.value = r.value,
                           !.executions = r.executions, !.reconnects = r.reconnects,
                           !.result = r.result,
                           !.dberr = r.result \in {"OperationalError", "Exception"}]
  /\ UNCHANGED <<dbvars, sessionvars>>

NextRetry ==
  \/ Idle /\ \E fetch \in FetchArguments,
                outcomes \in [1..max_retries -> AttemptOutcomes],
                connects \in [1..(max_retries - 1) -> BOOLEAN] :
               ExecuteWithRetry(fetch, outcomes, connects)
  \/ Return

SpecRetry == Init /\ [][NextRetry]_vars

\* The attempts made: those up to the first that does not meet an
\* OperationalError.
FirstSettled(outcomes) ==
  IF \E i \in DOMAIN outcomes : outcomes[i] # "OperationalError"
  THEN CHOOSE i \in DOMAIN outcomes :
         /\ outcomes[i] # "OperationalError"
         /\ \A j \in 1..(i - 1) : outcomes[j] = "OperationalError"
  ELSE Len(outcomes)

\* C26: a call of _execute_with_retry ends, having executed its statement at
\* most max_retries = 3 times; every OperationalError on an attempt that is
\* not the last is followed by one reconnect attempt and by the next attempt;
\* the first attempt that succeeds returns and nothing is executed after it;
\* when every attempt meets an OperationalError it is raised to the caller.
C26_RetryLoop ==
  ev.op = "_execute_with_retry" =>
    LET n == FirstSettled(ev.outcomes) IN
    /\ ev.result \in {"returned", "OperationalError", "Exception"}
    /\ ev.executions <= max_retries
    /\ ev.executions = n
    /\ Len(ev.reconnects) = n - 1
    /\ ev.outcomes[n] = "ok" <=> ev.result = "returned"
    /\ ev.result = "returned" => ev.value = Fetched(ev.fetch)
    /\ (\A i \in DOMAIN ev.outcomes : ev.outcomes[i] = "OperationalError")
         => (ev.result = "OperationalError" /\ ev.executions = max_retries)

\* The first two attempts lose the connection, the first reconnect fails, the
\* third attempt succeeds.
C26_Witness ==
  /\ ev.op = "_execute_with_retry"
  /\ ev.outcomes = <<"OperationalError", "OperationalError", "ok">>
  /\ ev.reconnects = <<FALSE, TRUE>>
  /\ ev.executions = 3
  /\ ev.result = "returned"

\* The summary of the loop that the persistence steps use: k attempts meet an
\* OperationalError before one succeeds.
RetrySummaryAgrees ==
  \A k \in RetryInputs :
    LET outcomes == [i \in 1..max_retries |-> IF i <= k THEN "OperationalError" ELSE "ok"]
        r == execute_with_retry("None", outcomes, [i \in 1..(max_retries - 1) |-> TRUE],
                                0, NotStarted)
    IN  /\ r.executions = RetryExecutions(k)
        /\ RetryRaises(k) <=> r.result = "OperationalError"

(***************************************************************************)
(* Claims about get_categories (checked under SpecDb)                      *)
(***************************************************************************)
UploadDateOf(rows, fid) ==
  (CHOOSE r \in Range(rows) : r.file_id = fid).upload_date

\* The list l holds exactly the files of category cid, each once, by
\* ascending upload date.
ListsFilesOf(l, rows, cid) ==
  /\ Len(l) = Cardinality(RowsOf(rows, cid))
  /\ \A i \in RowsOf(rows, cid) : \E j \in DOMAIN l : l[j] = FileDict(rows[i])
  /\ \A i, j \in DOMAIN l :
       i < j => UploadDateOf(rows, l[i].file_id) <= UploadDateOf(rows, l[j].file_id)

\* C21: get_categories, when its statements raise nothing, returns every
\* stored category exactly once, the one created last first; the file list of
\* each holds exactly the files of that category, none of another and none
\* missing, by ascending upload date, and is empty for a category without
\* files.
C21_ListCategories ==
  (ev.op = "get_categories" /\ ~ev.dberr) =>
    /\ Len(ev.listing) = Len(categories)
    /\ \A i \in DOMAIN ev.listing :
         LET c == categories[Len(categories) + 1 - i] IN
         /\ ev.listing[i].id = c.id
         /\ ev.listing[i].name = c.name
         /\ ListsFilesOf(ev.listing[i].files, files, c.id)
         /\ RowsOf(files, c.id) = {} => ev.listing[i].files = <<>>

\* get_categories with two categories stored: the older one holds two files
\* of one batch and a later one, the newer one holds none.
C21_Witness ==
  /\ ev.op = "get_categories" /\ ~ev.dberr
  /\ Len(ev.listing) = 2
  /\ Len(ev.listing[1].files) = 0
  /\ Len(ev.listing[2].files) = 3
  /\ UploadDateOf(files, ev.listing[2].files[1].file_id)
       = UploadDateOf(files, ev.listing[2].files[2].file_id)
  /\ UploadDateOf(files, ev.listing[2].files[2].file_id)
       < UploadDateOf(files, ev.listing[2].files[3].file_id)

(***************************************************************************)
(* Claims about all handlers (checked under SpecHandlers)                  *)
(***************************************************************************)
\* The update handled by the step was sent by a user who is no administrator.
ByNonAdmin == ev'.op # "idle" /\ ev'.user \notin ADMIN_IDS

\* C22: no command, message or button press of a user who is not an
\* administrator changes the tables categories, files and channels or either
\* session map; and every key of either session map is an administrator.
C22_NonAdminChangesNothing ==
  /\ [](/\ DOMAIN pending_uploads \subseteq ADMIN_IDS
        /\ DOMAIN pending_channel_data \subseteq ADMIN_IDS)
  /\ [][ByNonAdmin =>
          /\ UNCHANGED <<categories, files, channels>>
          /\ UNCHANGED <<pending_uploads, pending_channel_data>>]_vars

\* User 3 sends /upload A and is refused, while the administrator has an
\* upload with a file and a channel registration pending, and a category, a
\* file and a channel are stored.
C22_Witness ==
  /\ ev.op = "upload_command" /\ ev.user = 3 /\ ev.result = "not_allowed"
  /\ 1 \in DOMAIN pending_uploads /\ pending_uploads[1].files # <<>>
  /\ 1 \in DOMAIN pending_channel_data
  /\ categories # <<>> /\ files # <<>> /\ channels # <<>>

(***************************************************************************)
(* Claims about the lifetime of a pending upload (checked under SpecUpload) *)
(***************************************************************************)
HasUpload(u) == u \in DOMAIN pending_uploads

\* The step handled an update of user u.
UpdateOf(u) == ev'.op # "idle" /\ ev'.user = u

\* The step is an upload start by u: /upload that found its category, or the
\* button add_.
UploadStarted(u) ==
  /\ UpdateOf(u)
  /\ \/ ev'.op = "upload_command" /\ ev'.result = "started"
     \/ ev'.op = "start_adding_files"

\* The step is u's command /finish_upload or /cancel.
EndCommand(u) == UpdateOf(u) /\ ev'.text \in {"/finish_upload", "/cancel"}

SessionStateUnchanged ==
  UNCHANGED <<pending_uploads, pending_channel_data, upload_conv, channel_conv>>

\* C23: a user gets a pending upload only by an upload start that names a
\* stored category, and has one after such a start; the user's /finish_upload
\* or /cancel leaves them without one, and nothing else takes it away; a media
\* message of a user without a pending upload changes no session state and
\* no table.
C23_PendingUploadLifetime ==
  [][\A u \in Users :
       /\ (~HasUpload(u) /\ HasUpload(u)') =>
            UploadStarted(u) /\ CategoryExists(categories, ev'.cat)
       /\ (UploadStarted(u) /\ CategoryExists(categories, ev'.cat)) => HasUpload(u)'
       /\ EndCommand(u) => ~HasUpload(u)'
       /\ (HasUpload(u) /\ ~HasUpload(u)') => EndCommand(u)
       /\ (UpdateOf(u) /\ ev'.text = "media" /\ ~HasUpload(u)) =>
            SessionStateUnchanged /\ UNCHANGED dbvars]_vars

\* What holds: a pending upload appears only by an upload start of its user
\* and disappears only when finish_upload or cancel runs for that user;
\* /finish_upload always leaves the user without one; a media message of a
\* user without one changes nothing.
PendingUploadBetweenHandlers ==
  [][\A u \in Users :
       /\ (~HasUpload(u) /\ HasUpload(u)') => UploadStarted(u)
       /\ UploadStarted(u) => HasUpload(u)'
       /\ (UpdateOf(u) /\ ev'.op \in {"finish_upload", "cancel"}) => ~HasUpload(u)'
       /\ (UpdateOf(u) /\ ev'.text = "/finish_upload") => ~HasUpload(u)'
       /\ (HasUpload(u) /\ ~HasUpload(u)') =>
            UpdateOf(u) /\ ev'.op \in {"finish_upload", "cancel"}
       /\ (UpdateOf(u) /\ ev'.text = "media" /\ ~HasUpload(u)) =>
            SessionStateUnchanged /\ UNCHANGED dbvars]_vars

(***************************************************************************)
(* Claims about files and their categories (checked under SpecUpload)      *)
(***************************************************************************)
FilesHaveCategory ==
  \A i \in DOMAIN files : CategoryExists(categories, files[i].category_id)

\* /finish_upload of a session whose category is no longer stored.
FinishAfterCategoryDeleted ==
  /\ ev.op = "finish_upload"
  /\ ev.session0 # <<>>
  /\ ~CategoryExists(ev.categories0, ev.session0[1].category_id)

\* C29 (as claimed): every stored file belongs to a stored category, in every
\* state; and /finish_upload of a session whose category was deleted since
\* the session started stores none of the accumulated files, does not report
\* success, and leaves the user without a session.
C29_FilesHaveCategory ==
  /\ FilesHaveCategory
  /\ FinishAfterCategoryDeleted =>
       /\ files = ev.files0
       /\ ev.result # "added"
       /\ ev.user \notin DOMAIN pending_uploads

\* What holds: every stored file belongs to a stored category; a finish
\* after the category was deleted stores nothing and clears the session, and
\* it reports the failure when some accumulated file_id is not stored.
FinishAfterDeleteStoresNothing ==
  /\ FilesHaveCategory
  /\ FinishAfterCategoryDeleted =>
       /\ files = ev.files0
       /\ ev.user \notin DOMAIN pending_uploads
       /\ (\E j \in DOMAIN ev.session0[1].files :
             ~FileIdStored(ev.files0, ev.session0[1].files[j].file_id))
            => ev.result = "save_error"

(***************************************************************************)
(* Claims about the reply of /finish_upload (checked under SpecUpload)     *)
(***************************************************************************)
\* C30 (as claimed): the number of files that the success reply of
\* /finish_upload states is the number of files the command added to the
\* category: the growth of the category's file count.
C30_ReportedIsAdded ==
  FinishStored =>
    ev.reported = Len(FilesOfCategory(files, ev.cat))
                    - Len(FilesOfCategory(ev.files0, ev.cat))

\* What holds: the reply states the length of the accumulated list, which is
\* the number added when every file_id of the list is new and occurs once.
ReportedIsListLength ==
  FinishStored =>
    /\ ev.reported = Len(ev.session0[1].files)
    /\ CategoryExists(ev.categories0, ev.cat) =>
         Len(FilesOfCategory(files, ev.cat)) - Len(FilesOfCategory(ev.files0, ev.cat))
           = Cardinality({fid \in FileIdsOf(ev.session0[1].files) :
                            ~FileIdStored(ev.files0, fid)})

(***************************************************************************)
(* Handler runs that interleave at their awaits.  A handler is a coroutine: *)
(* it runs without interruption up to an await (a reply to Telegram), is    *)
(* suspended there while other handlers run, and goes on when the reply was *)
(* sent.  The calls of DatabaseManager are synchronous: they suspend        *)
(* nothing.  A conversation takes the state a handler returns when the      *)
(* handler has returned.                                                    *)
(***************************************************************************)
MaxAwaiting == 2       \* handler runs suspended at one time
MaxSession == 2        \* files one session takes while handlers interleave

\* Faulty variant: the file goes to the session that is first in the map
handle_media_first_session(p, user_id, m) ==
  IF user_id \notin DOMAIN p
  THEN [pending |-> p, result |-> "ignored", appended |-> <<>>]
  ELSE IF m.kind \notin MediaKinds
  THEN [pending |-> p, result |-> "unsupported", appended |-> <<>>]
  ELSE LET first == CHOOSE u \in DOMAIN p : \A v \in DOMAIN p : u <= v IN
       [pending |-> [p EXCEPT ![first].files = Append(@, extract_file_info(m))],
        result |-> "received", appended |-> <<extract_file_info(m)>>]

\* handle_media up to its await: the session map it leaves, the reply it is
\* about to send and the file it appended.
handle_media(p, user_id, m) ==
  IF user_id \notin DOMAIN p
  THEN [pending |-> p, result |-> "ignored", appended |-> <<>>]
  ELSE IF m.kind \notin MediaKinds
  THEN [pending |-> p, result |-> "unsupported", appended |-> <<>>]
  ELSE [pending |-> [p EXCEPT ![user_id].files = Append(@, extract_file_info(m))],
        result |-> "received", appended |-> <<extract_file_info(m)>>]

\* A handler run suspended at an await.  at: "answer" (query.answer() of
\* button_handler) or "reply" (the last statement before the return); conv
\* and next: the conversation that dispatched the handler and the state it
\* returns ("same" for None); appended: the file a handle_media run put into
\* the session; current: that session is still the user's session.
Suspended(op, user_id, at, conv, next, cid, appended) ==
  [op |-> op, user |-> user_id, at |-> at, conv |-> conv, next |-> next,
   cat |-> cid, appended |-> appended, current |-> appended # <<>>]

\* The user's session was removed or replaced: the files that suspended runs
\* appended belong to no session of the user any more.
Outdate(aw, user_id) ==
  LET old(run) == IF run.user = user_id THEN [run EXCEPT !.current = FALSE] ELSE run
      was(run) == [run EXCEPT !.current = TRUE]
  IN  [run \in {old(r) : r \in BagToSet(aw)} |->
         IF run.user = user_id
         THEN CopiesIn(run, aw) + (IF run.appended # <<>> THEN CopiesIn(was(run), aw) ELSE 0)
         ELSE CopiesIn(run, aw)]

One(run) == SetToBag({run})

\* The files appended to the user's present session whose receipt reply is
\* still awaited: a bag of files.
RECURSIVE AppendedOf(_, _)
AppendedOf(runs, aw) ==
  IF runs = {} THEN EmptyBag
  ELSE LET run == CHOOSE r \in runs : TRUE
       IN  [x \in {run.appended[1]} |-> CopiesIn(run, aw)] (+) AppendedOf(runs \ {run}, aw)

AppendedAwaited(aw, user_id) ==
  AppendedOf({r \in BagToSet(aw) : r.user = user_id /\ r.current}, aw)

InterleavedEvent(op, user_id) ==
  [HandlerEvent(op, user_id) EXCEPT
     !.acknowledged0 = acknowledged[user_id],
     !.appended0 = AppendedAwaited(awaiting, user_id)]

\* /upload <category_id>, up to the await of its reply.
BeginUploadCommand(user_id, cid) ==
  /\ Idle
  /\ BagCardinality(awaiting) < MaxAwaiting
  /\ IF upload_conv[user_id] # "END"
     THEN Unhandled(user_id, "/upload", cid)
     ELSE LET e == [InterleavedEvent("upload_command", user_id) EXCEPT
                      !.text = "/upload", !.cat = cid]
          IN  /\ IF ~is_admin(user_id) \/ ~get_category_found(categories, cid, 0)
                 THEN /\ ev' = [e EXCEPT !.result = IF is_admin(user_id) THEN "not_found"
                                                    ELSE "not_allowed"]
                      /\ awaiting' = awaiting (+) One(
                           Suspended("upload_command", user_id, "reply", "upload",
                                     "same", cid, <<>>))
                      /\ UNCHANGED <<pending_uploads, acknowledged>>
                 ELSE /\ pending_uploads' =
                           SetKey(pending_uploads, user_id,
                                  [category_id |-> cid, files |-> <<>>])
                      /\ awaiting' = Outdate(awaiting, user_id) (+) One(
                           Suspended("upload_command", user_id, "reply", "upload",
                                     "UPLOADING", cid, <<>>))
                      /\ acknowledged' = [acknowledged EXCEPT ![user_id] = <<>>]
                      /\ ev' = [e EXCEPT !.result = "started"]
              /\ UNCHANGED <<dbvars, pending_channel_data, upload_conv, channel_conv,
                             delete_keyboard>>

\* A media message, up to the await of the receipt reply.  A run that finds
\* no session returns at once.
BeginMedia(user_id, m) ==
  /\ Idle
  /\ BagCardinality(awaiting) < MaxAwaiting
  /\ IF ~(upload_conv[user_id] = "UPLOADING" /\ MediaFilter(m))
     THEN Unhandled(user_id, "media", NoCategory)
     ELSE LET r == handle_media(pending_uploads, user_id, m) IN
          /\ r.result = "received" => Len(pending_uploads[user_id].files) < MaxSession
          /\ pending_uploads' = r.pending
          /\ awaiting' =
               IF r.result = "ignored" THEN awaiting
               ELSE awaiting (+) One(
                      Suspended("handle_media", user_id, "reply", "upload", "same",
                                NoCategory, r.appended))
          /\ ev' = [InterleavedEvent("handle_media", user_id) EXCEPT
                      !.received = <<m>>, !.text = "media", !.result = r.result]
          /\ UNCHANGED <<dbvars, pending_channel_data, upload_conv, channel_conv,
                         delete_keyboard, acknowledged>>

\* /finish_upload, up to the await of its reply: the session is popped and
\* the batch is saved before anything is awaited.
BeginFinishUpload(user_id) ==
  LET r == finish_upload(pending_uploads, categories, files, user_id, FALSE) IN
  /\ Idle
  /\ BagCardinality(awaiting) < MaxAwaiting
  /\ pending_uploads' = r.pending
  /\ files' = r.files
  /\ awaiting' = Outdate(awaiting, user_id) (+) One(
       Suspended("finish_upload", user_id, "reply",
                 IF upload_conv[user_id] # "END" THEN "upload" ELSE "none",
                 "END", NoCategory, <<>>))
  /\ acknowledged' = [acknowledged EXCEPT ![user_id] = <<>>]
  /\ ev' = [InterleavedEvent("finish_upload", user_id) EXCEPT
              !.text = "/finish_upload", !.result = r.result, !.db_calls = r.db_calls,
              !.reported = r.reported]
  /\ UNCHANGED <<categories, channels, pending_channel_data, upload_conv, channel_conv,
                 delete_keyboard>>

\* /cancel, up to the await of its reply.
BeginCancel(user_id) ==
  /\ Idle
  /\ BagCardinality(awaiting) < MaxAwaiting
  /\ IF upload_conv[user_id] = "END" /\ channel_conv[user_id] = "END"
     THEN Unhandled(user_id, "/cancel", NoCategory)
     ELSE /\ pending_uploads' = DelKey(pending_uploads, user_id)
          /\ pending_channel_data' = DelKey(pending_channel_data, user_id)
          /\ awaiting' = Outdate(awaiting, user_id) (+) One(
               Suspended("cancel", user_id, "reply",
                         IF upload_conv[user_id] # "END" THEN "upload" ELSE "channel",
                         "END", NoCategory, <<>>))
          /\ acknowledged' = [acknowledged EXCEPT ![user_id] = <<>>]
          /\ ev' = [InterleavedEvent("cancel", user_id) EXCEPT
                      !.text = "/cancel", !.result = "cancelled"]
          /\ UNCHANGED <<dbvars, upload_conv, channel_conv, delete_keyboard>>

\* /add_channel: nothing but the reply.
BeginAddChannel(user_id) ==
  /\ Idle
  /\ BagCardinality(awaiting) < MaxAwaiting
  /\ IF channel_conv[user_id] # "END"
     THEN Unhandled(user_id, "/add_channel", NoCategory)
     ELSE /\ awaiting' = awaiting (+) One(
               Suspended("add_channel", user_id, "reply", "channel",
                         IF is_admin(user_id) THEN "WAITING_FOR_CHANNEL_INFO" ELSE "same",
                         NoCategory, <<>>))
          /\ ev' = [InterleavedEvent("add_channel", user_id) EXCEPT
                      !.text = "/add_channel",
                      !.result = IF is_admin(user_id) THEN "asked" ELSE "not_allowed"]
          /\ UNCHANGED <<dbvars, pending_uploads, pending_channel_data, upload_conv,
                         channel_conv, delete_keyboard, acknowledged>>

\* A text message in the channel conversation, up to the await of the reply.
BeginChannelInfo(user_id, message_text) ==
  /\ Idle
  /\ BagCardinality(awaiting) < MaxAwaiting
  /\ IF channel_conv[user_id] # "WAITING_FOR_CHANNEL_INFO"
     THEN Unhandled(user_id, message_text, NoCategory)
     ELSE LET r == handle_channel_info(pending_channel_data, channels, user_id,
                                       message_text, 0)
          IN  /\ pending_channel_data' = r.pending
              /\ channels' = r.channels
              /\ IF r.result = "none"
                 THEN /\ channel_conv' = [channel_conv EXCEPT ![user_id] = r.next]
                      /\ UNCHANGED awaiting
                 ELSE /\ awaiting' = awaiting (+) One(
                           Suspended("handle_channel_info", user_id, "reply", "channel",
                                     r.next, NoCategory, <<>>))
                      /\ UNCHANGED channel_conv
              /\ ev' = [InterleavedEvent("handle_channel_info", user_id) EXCEPT
                          !.text = message_text, !.result = r.result,
                          !.channel_calls = r.channel_calls]
              /\ UNCHANGED <<categories, files, pending_uploads, upload_conv,
                             delete_keyboard, acknowledged>>

\* The button add_<category_id>: button_handler awaits query.answer() before
\* it looks at the button.
BeginButtonAdd(user_id, cid) ==
  /\ Idle
  /\ BagCardinality(awaiting) < MaxAwaiting
  /\ awaiting' = awaiting (+) One(
       Suspended("button_handler", user_id, "answer", "none", "same", cid, <<>>))
  /\ ev' = [InterleavedEvent("button_handler", user_id) EXCEPT
              !.update = "CallbackQuery", !.cat = cid, !.result = "answering"]
  /\ UNCHANGED <<dbvars, pending_uploads, pending_channel_data, upload_conv,
                 channel_conv, delete_keyboard, acknowledged>>

\* The await of a suspended run is over.  After query.answer() the
\* run goes on with start_adding_files up to its reply; after a reply the
\* handler returns, its conversation takes the state returned, and a receipt
\* reply has acknowledged the file.
Resume(run) ==
  LET user_id == run.user IN
  /\ Idle
  /\ IF run.at = "answer"
     THEN /\ IF is_admin(user_id)
             THEN /\ pending_uploads' =
                       SetKey(pending_uploads, user_id,
                              [category_id |-> run.cat, files |-> <<>>])
                  /\ awaiting' = (Outdate(awaiting, user_id) (-) One(run))
                                    (+) One([run EXCEPT !.op = "start_adding_files",
                                                        !.at = "reply"])
                  /\ acknowledged' = [acknowledged EXCEPT ![user_id] = <<>>]
                  /\ ev' = [InterleavedEvent("start_adding_files", user_id) EXCEPT
                              !.update = "CallbackQuery", !.cat = run.cat,
                              !.result = "started"]
             ELSE /\ awaiting' = (awaiting (-) One(run)) (+) One([run EXCEPT !.at = "reply"])
                  /\ ev' = [InterleavedEvent("button_handler", user_id) EXCEPT
                              !.update = "CallbackQuery", !.cat = run.cat,
                              !.result = "not_allowed"]
                  /\ UNCHANGED <<pending_uploads, acknowledged>>
          /\ UNCHANGED <<upload_conv, channel_conv>>
     ELSE /\ awaiting' = awaiting (-) One(run)
          /\ upload_conv' =
               IF run.conv = "upload" /\ run.next # "same"
               THEN [upload_conv EXCEPT ![user_id] = run.next] ELSE upload_conv
          /\ channel_conv' =
               IF run.conv = "channel" /\ run.next # "same"
               THEN [channel_conv EXCEPT ![user_id] = run.next] ELSE channel_conv
          /\ acknowledged' =
               IF run.current
               THEN [acknowledged EXCEPT ![user_id] = @ \o run.appended]
               ELSE acknowledged
          /\ ev' = [InterleavedEvent("returned", user_id) EXCEPT
                      !.text = run.op, !.batch = run.appended,
                      !.result = IF run.current THEN "acknowledged" ELSE "replied"]
          /\ UNCHANGED pending_uploads
  /\ UNCHANGED <<dbvars, pending_channel_data, delete_keyboard>>

\* Both administrators at work at once, over the category "A" and one
\* document (f1).
InterleavedMessages == SessionMessages

\* The administrator who registers a channel meanwhile.
ChannelAdmins == {1}

\* The administrator who presses the add_ button meanwhile.
ButtonAdmins == {2}

NextInterleaved ==
  \/ Idle /\ \E u \in ADMIN_IDS : BeginUploadCommand(u, "A")
  \/ Idle /\ \E u \in ADMIN_IDS, m \in InterleavedMessages : BeginMedia(u, m)
  \/ Idle /\ \E u \in ADMIN_IDS : BeginFinishUpload(u)
  \/ Idle /\ \E u \in ADMIN_IDS : BeginCancel(u)
  \/ Idle /\ \E u \in ChannelAdmins : BeginAddChannel(u)
  \/ Idle /\ \E u \in ChannelAdmins : BeginChannelInfo(u, "c1")
  \/ Idle /\ \E u \in ButtonAdmins : BeginButtonAdd(u, "A")
  \/ Idle /\ \E run \in BagToSet(awaiting) : Resume(run)
  \/ Return

\* The tables as an earlier run left them: category "A" with the document,
\* and the channel c1.
InitInterleaved ==
  /\ categories = StoredCategories
  /\ files = add_file_rows(StoredCategories, <<>>, "A", InfoOf("f1"), 0)
  /\ channels = add_channel_rows(<<>>, "c1", "c1", "c1", 0)
  /\ pending_uploads = [u \in {} |-> 0]
  /\ pending_channel_data = [u \in {} |-> 0]
  /\ upload_conv = [u \in Users |-> "END"]
  /\ channel_conv = [u \in Users |-> "END"]
  /\ delete_keyboard = [u \in Users |-> <<>>]
  /\ awaiting = EmptyBag
  /\ acknowledged = [u \in Users |-> <<>>]
  /\ ev = NoEvent

SpecInterleaved == InitInterleaved /\ [][NextInterleaved]_vars

(***************************************************************************)
(* Claims about interleaved handler runs (checked under SpecInterleaved)   *)
(***************************************************************************)
Count(seq, x) == Cardinality({i \in DOMAIN seq : seq[i] = x})

\* As often as a file was put into the session, it is in the list: once for
\* every receipt reply sent and once for every receipt reply still awaited.
HoldsOncePerReceipt(list, acks, awaited) ==
  \A x \in Range(list) \cup Range(acks) \cup BagToSet(awaited) :
    Count(list, x) = Count(acks, x) + CopiesIn(x, awaited)

\* Every session holds the files acknowledged into it, and a user without a
\* session has none acknowledged.
SessionsHoldAcknowledged ==
  \A u \in Users :
    IF u \in DOMAIN pending_uploads
    THEN HoldsOncePerReceipt(pending_uploads[u].files, acknowledged[u],
                             AppendedAwaited(awaiting, u))
    ELSE acknowledged[u] = <<>> /\ AppendedAwaited(awaiting, u) = EmptyBag

\* The batch that /finish_upload hands to add_files_to_category is the list
\* of the session it removed, which holds every acknowledged file once per
\* receipt.
FinishBatchHoldsAcknowledged ==
  (ev.op = "finish_upload" /\ ev.session0 # <<>>) =>
    /\ HoldsOncePerReceipt(ev.session0[1].files, ev.acknowledged0, ev.appended0)
    /\ ev.db_calls = IF ev.session0[1].files = <<>> THEN <<>>
                     ELSE <<[category_id |-> ev.session0[1].category_id,
                             files |-> ev.session0[1].files]>>
    /\ ev.user \notin DOMAIN pending_uploads

\* A step in which handle_media runs for a user who has no session.
MediaWithoutSession ==
  /\ ev'.op = "handle_media"
  /\ ev'.user \notin DOMAIN pending_uploads

\* A step of a handler run of a user other than u.
StepOfOther(u) == ev'.op # "idle" /\ ev'.user # u

\* C31: with handler runs interleaving at their awaits, every file whose
\* receipt was acknowledged is in the user's session once per receipt until
\* the session is finished, cancelled or replaced, and so in the batch of the
\* session's /finish_upload; a media message handled when the session is
\* gone changes no table and no session; and a step of one user's handler run
\* leaves every other user's pending upload and pending channel registration
\* as they were.
C31_InterleavingKeepsSessions ==
  /\ [](SessionsHoldAcknowledged /\ FinishBatchHoldsAcknowledged)
  /\ [][MediaWithoutSession =>
          UNCHANGED <<dbvars, pending_uploads, pending_channel_data, acknowledged>>]_vars
  /\ [][\A u \in Users :
          StepOfOther(u) =>
            /\ SessionOf(pending_uploads, u)' = SessionOf(pending_uploads, u)
            /\ SessionOf(pending_channel_data, u)' = SessionOf(pending_channel_data, u)
            /\ acknowledged'[u] = acknowledged[u]]_vars

\* Administrator 1 finishes a session of two files, the receipt of the
\* second still awaited, while administrator 2 has a session with a file.
C31_Witness ==
  /\ ev.op = "finish_upload" /\ ev.user = 1 /\ ev.result = "added"
  /\ Len(ev.session0[1].files) = 2
  /\ Len(ev.acknowledged0) = 1 /\ BagCardinality(ev.appended0) = 1
  /\ 2 \in DOMAIN pending_uploads /\ pending_uploads[2].files # <<>>
  /\ \E run \in BagToSet(awaiting) : run.user = 1 /\ run.appended # <<>>

====
